---- MODULE Spec2Model ----
(***************************************************************************)
(* State-machine model of pkg/gui/xlunch_native.c: the XLunchNative        *)
(* context (layout, scroll state, hover state, entry counts), the X event  *)
(* queue of the display connection, and the host-visible results of        *)
(* xlunch_native_set_scroll_level and xlunch_native_handle_events.         *)
(***************************************************************************)
EXTENDS Integers, Sequences, FiniteSets

VARIABLES
    xl,              \* the XLunchNative structure (xlunch_native.h:17-60)
    pc,              \* the host: "setup" before xlunch_native_show, "loop" while it
                     \* polls, "quit" once handle_events returned 0, "killed" when
                     \* the process died of an undefined operation; when it
                     \* renders: "null" (init returned NULL), "ready", "frame"
                     \* (between clear and present), "closed" after cleanup
    queue,           \* pending X events of xl->display, oldest first
    selected_entry,  \* the host's int that handle_events writes through its pointer
    call,            \* the API call that has just returned: its name, its input, the
                     \* offset before it and the value returned; "none" after any
                     \* step that is not such a call
    native           \* the resources behind the structure's handles, the Imlib2
                     \* context image, the content of window and render buffer

vars == <<xl, pc, queue, selected_entry, call, native>>

----------------------------------------------------------------------------
(* Bounds of the model.                                                    *)

MaxQueue == 1      \* events that may be pending at once
MaxBurst == 3      \* events pending when a burst of input is polled
MaxCols == 3       \* columns of the widest window whose scroll bound is examined
MaxRows == 2       \* rows of the highest such window
MaxEntries == 7    \* largest entry count given to such a window
FarScroll == 100   \* magnitude of a scroll request far outside the range

----------------------------------------------------------------------------
(* Program constants.                                                      *)

HeaderHeight == 140
Padding == 20
TextSpace == 20

KeyEscape == 9
KeyPageUp == 112
KeyPageDown == 117
KeyHome == 110
KeyEnd == 115
KeyUp == 111
KeyDown == 116

Button1 == 1
Button4 == 4
Button5 == 5

\* return codes of xlunch_native_handle_events
RetQuit == 0
RetContinue == 1
RetRedraw == 2
RetSettings == -2
RetLogo == -3
NoSelection == -1

----------------------------------------------------------------------------
(* C integer arithmetic: '/' truncates toward zero, '%' keeps the sign of  *)
(* the dividend.  Both are undefined for a zero divisor; callers decide    *)
(* what happens then.                                                      *)

Abs(a) == IF a < 0 THEN -a ELSE a

CDiv(a, b) ==
    LET q == Abs(a) \div Abs(b)
    IN  IF (a < 0) # (b < 0) THEN -q ELSE q

CMod(a, b) == a - b * CDiv(a, b)

----------------------------------------------------------------------------
(* xlunch_native_init: the fields of the context this model follows.  The  *)
(* structure comes from malloc and num_entries is never assigned, so its   *)
(* value after init is whatever the allocation held (garbage).             *)

\* Faulty variant: the two divisions round toward minus infinity.
InitFloorDivision(width, height, icon_size, garbage) ==
    LET cell_width  == icon_size + Padding * 2
        cell_height == icon_size + Padding * 2 + TextSpace
    IN  [ width       |-> width,
          height      |-> height,
          icon_size   |-> icon_size,
          padding     |-> Padding,
          cell_width  |-> cell_width,
          cell_height |-> cell_height,
          cols        |-> (width - Padding) \div cell_width,
          rows        |-> (height - Padding) \div cell_height,
          num_entries |-> garbage,
          settings_button_hovered |-> 0,
          logo_button_hovered     |-> 0,
          settings_x |-> width - 150, settings_y |-> 30,
          settings_w |-> 140,         settings_h |-> 52,
          logo_x |-> 45,  logo_y |-> 10,
          logo_w |-> 245, logo_h |-> 100,
          scrolled_past |-> 0,
          noscroll      |-> 0,
          entries_count |-> 0 ]

xlunch_native_init(width, height, icon_size, garbage) ==
    LET cell_width  == icon_size + Padding * 2
        cell_height == icon_size + Padding * 2 + TextSpace
    IN  [ width       |-> width,
          height      |-> height,
          icon_size   |-> icon_size,
          padding     |-> Padding,
          cell_width  |-> cell_width,
          cell_height |-> cell_height,
          cols        |-> CDiv(width - Padding, cell_width),
          rows        |-> CDiv(height - Padding, cell_height),
          num_entries |-> garbage,
          settings_button_hovered |-> 0,
          logo_button_hovered     |-> 0,
          settings_x |-> width - 150, settings_y |-> 30,
          settings_w |-> 140,         settings_h |-> 52,
          logo_x |-> 45,  logo_y |-> 10,
          logo_w |-> 245, logo_h |-> 100,
          scrolled_past |-> 0,
          noscroll      |-> 0,
          entries_count |-> 0 ]

----------------------------------------------------------------------------
(* X events as the dispatcher reads them: the type, the keycode or button  *)
(* and the pointer position (0 where the type carries none).               *)

Event(type, code, x, y) == [type |-> type, code |-> code, x |-> x, y |-> y]

NoEvent == Event("None", 0, 0, 0)

Key(keycode) == Event("KeyPress", keycode, 0, 0)

----------------------------------------------------------------------------
(* xlunch_native_set_scroll_level.  The result is the set of outcomes the  *)
(* call can have: one, except when the clamp divides by cols == 0, which   *)
(* is undefined in C: the build either traps (SIGFPE, the process dies) or *)
(* yields quotient 0 (ARM sdiv).                                           *)

\* Faulty variants of the clamp, used to show that the theorems below
\* depend on it: the lower clamp applied before the upper one, the changed
\* flag computed against the request, and the changed flag always set.
ClampScrollFloorFirst(x, new_scroll, quotient) ==
    LET max_scroll == quotient - x.rows + 1
        floored    == IF new_scroll < 0 THEN 0 ELSE new_scroll
        clamped    == IF floored > max_scroll THEN max_scroll ELSE floored
    IN  [ crash |-> FALSE,
          xl    |-> [x EXCEPT !.scrolled_past = clamped],
          ret   |-> IF clamped # x.scrolled_past THEN 1 ELSE 0 ]

ClampScrollChangedVsRequest(x, new_scroll, quotient) ==
    LET max_scroll == quotient - x.rows + 1
        capped     == IF new_scroll > max_scroll THEN max_scroll ELSE new_scroll
        clamped    == IF capped < 0 THEN 0 ELSE capped
    IN  [ crash |-> FALSE,
          xl    |-> [x EXCEPT !.scrolled_past = clamped],
          ret   |-> IF clamped # new_scroll THEN 1 ELSE 0 ]

ClampScrollAlwaysChanged(x, new_scroll, quotient) ==
    LET max_scroll == quotient - x.rows + 1
        capped     == IF new_scroll > max_scroll THEN max_scroll ELSE new_scroll
        clamped    == IF capped < 0 THEN 0 ELSE capped
    IN  [ crash |-> FALSE,
          xl    |-> [x EXCEPT !.scrolled_past = clamped],
          ret   |-> 1 ]

ClampScroll(x, new_scroll, quotient) ==
    LET max_scroll == quotient - x.rows + 1
        capped     == IF new_scroll > max_scroll THEN max_scroll ELSE new_scroll
        clamped    == IF capped < 0 THEN 0 ELSE capped
    IN  [ crash |-> FALSE,
          xl    |-> [x EXCEPT !.scrolled_past = clamped],
          ret   |-> IF clamped # x.scrolled_past THEN 1 ELSE 0 ]

\* Faulty variant: the noscroll flag is not consulted.
SetScrollLevelIgnoringNoscroll(x, new_scroll) ==
    IF new_scroll = x.scrolled_past
    THEN {[crash |-> FALSE, xl |-> x, ret |-> 0]}
    ELSE IF x.cols = 0
    THEN {[crash |-> TRUE, xl |-> x, ret |-> 0], ClampScroll(x, new_scroll, 0)}
    ELSE {ClampScroll(x, new_scroll, CDiv(x.entries_count - 1, x.cols))}

xlunch_native_set_scroll_level(x, new_scroll) ==
    IF x.noscroll # 0
    THEN {[crash |-> FALSE, xl |-> x, ret |-> 0]}
    ELSE IF new_scroll = x.scrolled_past
    THEN {[crash |-> FALSE, xl |-> x, ret |-> 0]}
    ELSE IF x.cols = 0
    THEN {[crash |-> TRUE, xl |-> x, ret |-> 0], ClampScroll(x, new_scroll, 0)}
    ELSE {ClampScroll(x, new_scroll, CDiv(x.entries_count - 1, x.cols))}

----------------------------------------------------------------------------
(* xlunch_native_check_button_hover and xlunch_native_handle_hover.        *)

\* Faulty variants: the logo test ignores the vertical extent of the logo;
\* the hover update only ever sets a flag, it does not clear the other one.
CheckButtonHoverLogoAnyY(x, mouse_x, mouse_y) ==
    IF /\ mouse_x >= x.settings_x /\ mouse_x <= x.settings_x + x.settings_w
       /\ mouse_y >= x.settings_y /\ mouse_y <= x.settings_y + x.settings_h
    THEN 1
    ELSE IF mouse_x >= x.logo_x /\ mouse_x <= x.logo_x + x.logo_w
    THEN 2
    ELSE 0

xlunch_native_check_button_hover(x, mouse_x, mouse_y) ==
    IF /\ mouse_x >= x.settings_x /\ mouse_x <= x.settings_x + x.settings_w
       /\ mouse_y >= x.settings_y /\ mouse_y <= x.settings_y + x.settings_h
    THEN 1
    ELSE IF /\ mouse_x >= x.logo_x /\ mouse_x <= x.logo_x + x.logo_w
            /\ mouse_y >= x.logo_y /\ mouse_y <= x.logo_y + x.logo_h
    THEN 2
    ELSE 0

HandleHoverIncremental(x, mouse_x, mouse_y) ==
    LET button == xlunch_native_check_button_hover(x, mouse_x, mouse_y)
    IN  [x EXCEPT !.settings_button_hovered =
                      IF button = 1 THEN 1 ELSE x.settings_button_hovered,
                  !.logo_button_hovered =
                      IF button = 2 THEN 1 ELSE x.logo_button_hovered]

xlunch_native_handle_hover(x, mouse_x, mouse_y) ==
    LET button == xlunch_native_check_button_hover(x, mouse_x, mouse_y)
    IN  [x EXCEPT !.settings_button_hovered = IF button = 1 THEN 1 ELSE 0,
                  !.logo_button_hovered     = IF button = 2 THEN 1 ELSE 0]

----------------------------------------------------------------------------
(* xlunch_native_calculate_entry_position: top-left of the icon of entry   *)
(* entry_index under the current scroll offset (cols # 0).                 *)

\* Faulty variant: the scroll offset is added instead of subtracted.
EntryPositionScrollAdded(x, entry_index) ==
    LET row == CDiv(entry_index, x.cols)
        col == CMod(entry_index, x.cols)
        display_row == row + x.scrolled_past
    IN  [ x |-> col * x.cell_width + CDiv(x.cell_width - x.icon_size, 2),
          y |-> HeaderHeight + display_row * x.cell_height ]

xlunch_native_calculate_entry_position(x, entry_index) ==
    LET row == CDiv(entry_index, x.cols)
        col == CMod(entry_index, x.cols)
        display_row == row - x.scrolled_past
    IN  [ x |-> col * x.cell_width + CDiv(x.cell_width - x.icon_size, 2),
          y |-> HeaderHeight + display_row * x.cell_height ]

----------------------------------------------------------------------------
(* xlunch_native_handle_events, applied to the event XNextEvent returned.  *)
(* The result is the set of outcomes [crash, xl, ret, selected_entry];     *)
(* *selected_entry is set to -1 before the event is looked at.             *)

Outcome(x, r, sel) == [crash |-> FALSE, xl |-> x, ret |-> r, selected_entry |-> sel]

\* Faulty variant: every scroll input asks for a redraw.
ScrollByAlwaysRedraw(x, new_scroll) ==
    { [ crash |-> o.crash, xl |-> o.xl,
        ret   |-> RetRedraw,
        selected_entry |-> NoSelection ]
      : o \in xlunch_native_set_scroll_level(x, new_scroll) }

\* a scroll key or wheel button: set the level, redraw only if it changed
ScrollBy(x, new_scroll) ==
    { [ crash |-> o.crash, xl |-> o.xl,
        ret   |-> IF o.ret # 0 THEN RetRedraw ELSE RetContinue,
        selected_entry |-> NoSelection ]
      : o \in xlunch_native_set_scroll_level(x, new_scroll) }

\* Faulty variants: a key the switch does not know asks for a redraw;
\* Escape also rewinds the grid and drops the hover state before quitting.
KeyPressUnknownRedraws(x, keycode) ==
    IF keycode = KeyEscape THEN {Outcome(x, RetQuit, NoSelection)}
    ELSE IF keycode = KeyPageUp THEN ScrollBy(x, x.scrolled_past - x.rows)
    ELSE IF keycode = KeyPageDown THEN ScrollBy(x, x.scrolled_past + x.rows)
    ELSE IF keycode = KeyHome THEN ScrollBy(x, 0)
    ELSE IF keycode = KeyEnd THEN ScrollBy(x, x.entries_count)
    ELSE IF keycode = KeyUp THEN ScrollBy(x, x.scrolled_past - 1)
    ELSE IF keycode = KeyDown THEN ScrollBy(x, x.scrolled_past + 1)
    ELSE {Outcome(x, RetRedraw, NoSelection)}

KeyPressEscapeResets(x, keycode) ==
    IF keycode = KeyEscape
    THEN {Outcome([x EXCEPT !.scrolled_past = 0, !.settings_button_hovered = 0,
                            !.logo_button_hovered = 0], RetQuit, NoSelection)}
    ELSE IF keycode = KeyPageUp THEN ScrollBy(x, x.scrolled_past - x.rows)
    ELSE IF keycode = KeyPageDown THEN ScrollBy(x, x.scrolled_past + x.rows)
    ELSE IF keycode = KeyHome THEN ScrollBy(x, 0)
    ELSE IF keycode = KeyEnd THEN ScrollBy(x, x.entries_count)
    ELSE IF keycode = KeyUp THEN ScrollBy(x, x.scrolled_past - 1)
    ELSE IF keycode = KeyDown THEN ScrollBy(x, x.scrolled_past + 1)
    ELSE {Outcome(x, RetContinue, NoSelection)}

KeyPress(x, keycode) ==
    IF keycode = KeyEscape THEN {Outcome(x, RetQuit, NoSelection)}
    ELSE IF keycode = KeyPageUp THEN ScrollBy(x, x.scrolled_past - x.rows)
    ELSE IF keycode = KeyPageDown THEN ScrollBy(x, x.scrolled_past + x.rows)
    ELSE IF keycode = KeyHome THEN ScrollBy(x, 0)
    ELSE IF keycode = KeyEnd THEN ScrollBy(x, x.entries_count)
    ELSE IF keycode = KeyUp THEN ScrollBy(x, x.scrolled_past - 1)
    ELSE IF keycode = KeyDown THEN ScrollBy(x, x.scrolled_past + 1)
    ELSE {Outcome(x, RetContinue, NoSelection)}

\* Faulty variant: the logo is looked at before the settings button.
HeaderClickLogoFirst(x, px, py) ==
    LET button_clicked == xlunch_native_check_button_hover(x, px, py)
    IN  IF /\ px >= x.logo_x /\ px <= x.logo_x + x.logo_w
           /\ py >= x.logo_y /\ py <= x.logo_y + x.logo_h
        THEN {Outcome(x, RetLogo, NoSelection)}
        ELSE IF button_clicked = 1 THEN {Outcome(x, RetSettings, NoSelection)}
        ELSE {Outcome(x, RetContinue, NoSelection)}

HeaderClick(x, px, py) ==
    LET button_clicked == xlunch_native_check_button_hover(x, px, py)
    IN  IF button_clicked = 1 THEN {Outcome(x, RetSettings, NoSelection)}
        ELSE IF button_clicked = 2 THEN {Outcome(x, RetLogo, NoSelection)}
        ELSE {Outcome(x, RetContinue, NoSelection)}

\* Faulty variants of the grid hit-test: the scroll offset is left out of
\* the index; the fully-visible-rows check is left out.
GridClickIgnoringScroll(x, px, py) ==
    LET grid_y == py - HeaderHeight
        col == CDiv(px, x.cell_width)
        display_row == CDiv(grid_y, x.cell_height)
        index == display_row * x.cols + col
        maxVisibleRows == CDiv(x.height - HeaderHeight, x.cell_height)
    IN  IF /\ px >= 0 /\ grid_y >= 0
           /\ col >= 0 /\ col < x.cols /\ display_row >= 0
           /\ index >= 0 /\ index < x.num_entries
           /\ display_row < maxVisibleRows
        THEN {Outcome(x, RetQuit, index)}
        ELSE {Outcome(x, RetContinue, NoSelection)}

GridClickAnyRow(x, px, py) ==
    LET grid_y == py - HeaderHeight
        col == CDiv(px, x.cell_width)
        display_row == CDiv(grid_y, x.cell_height)
        actual_row == display_row + x.scrolled_past
        index == actual_row * x.cols + col
    IN  IF /\ px >= 0 /\ grid_y >= 0
           /\ col >= 0 /\ col < x.cols /\ display_row >= 0
           /\ index >= 0 /\ index < x.num_entries
        THEN {Outcome(x, RetQuit, index)}
        ELSE {Outcome(x, RetContinue, NoSelection)}

GridClick(x, px, py) ==
    LET grid_y == py - HeaderHeight
        col == CDiv(px, x.cell_width)
        display_row == CDiv(grid_y, x.cell_height)
        actual_row == display_row + x.scrolled_past
        index == actual_row * x.cols + col
        maxVisibleRows == CDiv(x.height - HeaderHeight, x.cell_height)
    IN  IF /\ px >= 0 /\ grid_y >= 0
           /\ col >= 0 /\ col < x.cols /\ display_row >= 0
           /\ index >= 0 /\ index < x.num_entries
           /\ display_row < maxVisibleRows
        THEN {Outcome(x, RetQuit, index)}
        ELSE {Outcome(x, RetContinue, NoSelection)}

ButtonPress(x, button, px, py) ==
    IF button = Button1
    THEN IF py < HeaderHeight THEN HeaderClick(x, px, py) ELSE GridClick(x, px, py)
    ELSE IF button = Button4 THEN ScrollBy(x, x.scrolled_past - 1)
    ELSE IF button = Button5 THEN ScrollBy(x, x.scrolled_past + 1)
    ELSE {Outcome(x, RetContinue, NoSelection)}

\* Faulty variant: only EnterNotify clears the hover flags.
HandleEventsLeaveKeepsHover(x, event) ==
    IF event.type = "KeyPress" THEN KeyPress(x, event.code)
    ELSE IF event.type = "ButtonPress" THEN ButtonPress(x, event.code, event.x, event.y)
    ELSE IF event.type = "Expose" THEN {Outcome(x, RetRedraw, NoSelection)}
    ELSE IF event.type = "ClientMessage" THEN {Outcome(x, RetQuit, NoSelection)}
    ELSE IF event.type = "MotionNotify"
    THEN {Outcome(xlunch_native_handle_hover(x, event.x, event.y), RetContinue, NoSelection)}
    ELSE IF event.type = "EnterNotify"
    THEN {Outcome([x EXCEPT !.settings_button_hovered = 0, !.logo_button_hovered = 0],
                  RetContinue, NoSelection)}
    ELSE {Outcome(x, RetContinue, NoSelection)}

\* Faulty variant: an Expose event rewinds the grid and drops the hover.
HandleEventsExposeRewinds(x, event) ==
    IF event.type = "KeyPress" THEN KeyPress(x, event.code)
    ELSE IF event.type = "ButtonPress" THEN ButtonPress(x, event.code, event.x, event.y)
    ELSE IF event.type = "Expose"
    THEN {Outcome([x EXCEPT !.scrolled_past = 0, !.settings_button_hovered = 0,
                            !.logo_button_hovered = 0], RetRedraw, NoSelection)}
    ELSE IF event.type = "ClientMessage" THEN {Outcome(x, RetQuit, NoSelection)}
    ELSE IF event.type = "MotionNotify"
    THEN {Outcome(xlunch_native_handle_hover(x, event.x, event.y), RetContinue, NoSelection)}
    ELSE IF event.type \in {"EnterNotify", "LeaveNotify"}
    THEN {Outcome([x EXCEPT !.settings_button_hovered = 0, !.logo_button_hovered = 0],
                  RetContinue, NoSelection)}
    ELSE {Outcome(x, RetContinue, NoSelection)}

xlunch_native_handle_events(x, event) ==
    IF event.type = "KeyPress" THEN KeyPress(x, event.code)
    ELSE IF event.type = "ButtonPress" THEN ButtonPress(x, event.code, event.x, event.y)
    ELSE IF event.type = "Expose" THEN {Outcome(x, RetRedraw, NoSelection)}
    ELSE IF event.type = "ClientMessage" THEN {Outcome(x, RetQuit, NoSelection)}
    ELSE IF event.type = "MotionNotify"
    THEN {Outcome(xlunch_native_handle_hover(x, event.x, event.y), RetContinue, NoSelection)}
    ELSE IF event.type \in {"EnterNotify", "LeaveNotify"}
    THEN {Outcome([x EXCEPT !.settings_button_hovered = 0, !.logo_button_hovered = 0],
                  RetContinue, NoSelection)}
    ELSE {Outcome(x, RetContinue, NoSelection)}

----------------------------------------------------------------------------
(* The native side of the context: the resources xlunch_native_init        *)
(* acquires, the Imlib2 context image (imlib_blend_image_onto_image draws  *)
(* onto it and imlib_free_image frees it), and what the window and the     *)
(* render buffer show.  A call that uses a freed object or a closed        *)
(* display is undefined: it either kills the process or goes on as if the  *)
(* object were still there.                                                 *)

Resources ==
    { "core", "display", "colormap", "window", "gc", "xft_draw", "font",
      "text_color", "highlight_color", "background_color",
      "render_buffer", "background_image" }

Colors == {"text_color", "highlight_color", "background_color"}

\* the three degradable handles of the structure, NULL when not acquired
Degradable == {"font", "render_buffer", "background_image"}

\* imlib_context_set_color(46, 52, 64, 255), and the same color as the
\* pixel value handed to XSetForeground
FallbackColor == <<46, 52, 64>>
FallbackPixel == 3028032

ChannelsOf(pixel) ==
    << (pixel \div 65536) % 256, (pixel \div 256) % 256, pixel % 256 >>

\* pixels: nothing yet, the darkened capture of the desktop, or one color
NoPixels == [kind |-> "none", rgb |-> <<0, 0, 0>>]
Desktop == [kind |-> "desktop", rgb |-> <<0, 0, 0>>]
Flat(rgb) == [kind |-> "flat", rgb |-> rgb]

\* a drawing surface: what it was last cleared to and what was drawn since
Surface(base, items) == [base |-> base, items |-> items]
Blank == Surface(NoPixels, {})

\* what the environment grants: the allocation of the structure, the
\* display connection, a font, the two images, the root-window capture
Envs ==
    [ malloc : BOOLEAN, display : BOOLEAN, font : BOOLEAN,
      render_buffer : BOOLEAN, background_image : BOOLEAN, capture : BOOLEAN ]

NoContext(log) ==
    [ result |-> "null", handles |-> {},
      acquired |-> {e.resource : e \in {log[i] : i \in 1..Len(log)}},
      held |-> {}, misreleased |-> {},
      release_log |-> log, ctx_image |-> "none", theme |-> "transparent",
      backdrop |-> NoPixels, window |-> Blank, buffer |-> Blank, frame |-> {},
      scrollbar |-> <<>> ]

LogEntry(resource, uses_display, display_open) ==
    [resource |-> resource, uses_display |-> uses_display,
     display_open |-> display_open]

\* Faulty variant: a missing font makes initialization fail.
InitSurfaceFontFatal(env) ==
    IF ~env.malloc \/ ~env.font THEN NoContext(<<>>)
    ELSE IF ~env.display THEN NoContext(<<LogEntry("core", FALSE, FALSE)>>)
    ELSE LET got == {r \in Degradable : env[r]}
         IN  [ result  |-> "context",
               handles |-> got,
               acquired |-> (Resources \ Degradable) \cup got,
               held    |-> (Resources \ Degradable) \cup got,
               misreleased |-> {},
               release_log |-> <<>>,
               ctx_image |-> IF env.background_image THEN "background_image"
                             ELSE "none",
               theme    |-> "transparent",
               backdrop |-> IF ~env.background_image THEN NoPixels
                            ELSE IF env.capture THEN Desktop
                            ELSE Flat(FallbackColor),
               window |-> Blank, buffer |-> Blank, frame |-> {},
               scrollbar |-> <<>> ]

\* xlunch_native_init, the resources: NULL when malloc or XOpenDisplay
\* fails (the structure is freed again in the second case), a context
\* otherwise, whose font, render buffer and backdrop image may be NULL
InitSurface(env) ==
    IF ~env.malloc THEN NoContext(<<>>)
    ELSE IF ~env.display THEN NoContext(<<LogEntry("core", FALSE, FALSE)>>)
    ELSE LET got == {r \in Degradable : env[r]}
         IN  [ result  |-> "context",
               handles |-> got,
               acquired |-> (Resources \ Degradable) \cup got,
               held    |-> (Resources \ Degradable) \cup got,
               misreleased |-> {},
               release_log |-> <<>>,
               ctx_image |-> IF env.background_image THEN "background_image"
                             ELSE "none",
               theme    |-> "transparent",
               backdrop |-> IF ~env.background_image THEN NoPixels
                            ELSE IF env.capture THEN Desktop
                            ELSE Flat(FallbackColor),
               window |-> Blank, buffer |-> Blank, frame |-> {},
               scrollbar |-> <<>> ]

\* an outcome of a call on the native side
Done(n) == [crash |-> FALSE, native |-> n]
Killed(n) == [crash |-> TRUE, native |-> n]

\* a call that uses object r: defined when r is held, undefined otherwise
Using(n, r, after) == IF r \in n.held THEN {Done(after)} ELSE {Killed(n), Done(after)}

Themes == {"light-3d", "dark-3d", "transparent"}

Draw(n, target, item) ==
    [n EXCEPT ![target].items = @ \cup {item}, !.frame = @ \cup {item}]

\* Faulty variant: a theme change frees the backdrop image.
SetThemeColorsDiscardsBackdrop(n, theme) ==
    {Done([n EXCEPT !.theme = theme,
                    !.handles = @ \ {"background_image"},
                    !.held = @ \ {"background_image"},
                    !.backdrop = NoPixels])}

xlunch_native_set_theme_colors(n, theme) ==
    {Done([n EXCEPT !.theme = theme])}

\* XftDrawStringUtf8 on xl->xft_draw, which is bound to the window; the
\* font pointer is passed unchecked
xlunch_native_draw_text(n) ==
    IF "font" \in n.handles THEN {Done(Draw(n, "window", "text"))}
    ELSE {Killed(n), Done(n)}

xlunch_native_draw_rect(n) == {Done(Draw(n, "window", "rect"))}

xlunch_native_draw_rounded_rect(n) == {Done(Draw(n, "window", "rounded_rect"))}

xlunch_native_clear(n) ==
    IF "render_buffer" \in n.handles
    THEN Using(n, "render_buffer",
               [n EXCEPT !.ctx_image = "render_buffer",
                         !.buffer = Surface(IF "background_image" \in n.handles
                                            THEN n.backdrop ELSE Flat(FallbackColor), {}),
                         !.frame = {}])
    ELSE IF "background_image" \in n.handles
    THEN {Done([n EXCEPT !.ctx_image = "background_image",
                         !.window = Surface(n.backdrop, {}), !.frame = {}])}
    ELSE {Done([n EXCEPT !.window = Surface(Flat(ChannelsOf(FallbackPixel)), {}),
                         !.frame = {}])}

\* the render buffer is rendered onto the whole window
xlunch_native_present(n) ==
    IF "render_buffer" \notin n.handles THEN {Done(n)}
    ELSE Using(n, "render_buffer",
               [n EXCEPT !.ctx_image = "render_buffer",
                         !.window = n.buffer, !.frame = {}])

\* loaded: imlib_load_image returned the icon.  With a render buffer the
\* context image is the icon when imlib_blend_image_onto_image runs, so the
\* icon is blended onto itself, and the render buffer when imlib_free_image
\* runs, so the render buffer is freed and the icon is kept.  Without an
\* icon a placeholder tile is drawn with X calls on the window.
xlunch_native_draw_icon(n, loaded) ==
    IF ~loaded THEN {Done(Draw(n, "window", "tile"))}
    ELSE IF "render_buffer" \in n.handles
    THEN Using(n, "render_buffer",
               [n EXCEPT !.ctx_image = "render_buffer",
                         !.frame = @ \cup {"icon"},
                         !.held = (@ \ {"render_buffer"}) \cup {"icon"},
                         !.misreleased = IF "render_buffer" \in n.held THEN @
                                         ELSE @ \cup {"render_buffer"}])
    ELSE {Done([Draw(n, "window", "icon") EXCEPT !.ctx_image = "none"])}

\* the scrollbar drawn after scroll_percentage was computed with the given
\* quotient (entries_count - 1) / cols; scrollbar holds the divisor used
ScrollbarClampsDivisor(x, n, quotient) ==
    LET divisor == quotient - x.rows + 1
    IN  Done([Draw(n, "window", "scrollbar")
                 EXCEPT !.scrollbar = <<IF divisor < 1 THEN 1 ELSE divisor>>])

ScrollbarAt(x, n, quotient) ==
    LET divisor == quotient - x.rows + 1
    IN  Done([Draw(n, "window", "scrollbar") EXCEPT !.scrollbar = <<divisor>>])

\* drawn with X calls on the window when the entries do not fit the grid;
\* the indicator's position divides the offset by
\* (entries_count - 1) / cols - rows + 1, and the quotient in it divides by
\* cols: with cols = 0 the process is killed or the quotient is 0
xlunch_native_draw_scrollbar(x, n) ==
    IF x.noscroll # 0 \/ x.entries_count <= x.rows * x.cols
    THEN {Done([n EXCEPT !.scrollbar = <<>>])}
    ELSE IF x.cols = 0
    THEN {Killed(n), ScrollbarAt(x, n, 0)}
    ELSE {ScrollbarAt(x, n, CDiv(x.entries_count - 1, x.cols))}

\* one release call: r leaves the held resources; releasing what is not
\* held is recorded, and so is whether the display was open at the call
Release(n, r, uses_display) ==
    [n EXCEPT !.held = @ \ {r},
              !.misreleased = IF r \in n.held THEN @ ELSE @ \cup {r},
              !.release_log = Append(@, LogEntry(r, uses_display,
                                                 "display" \in n.held))]

RECURSIVE ReleaseEach(_, _, _)
ReleaseEach(n, rs, uses_display) ==
    IF rs = <<>> THEN n
    ELSE ReleaseEach(Release(n, Head(rs), uses_display), Tail(rs), uses_display)

\* xlunch_native_cleanup: the images, then font, Xft draw, GC, window and
\* display, then the three colors through the display just closed, then
\* the structure.  The colormap has no release call.  imlib_free_image on
\* a render buffer that xlunch_native_draw_icon already freed, and
\* XftColorFree on the closed display, are undefined.
xlunch_native_cleanup(n) ==
    LET backdrop == ReleaseEach(n, SelectSeq(<<"background_image">>,
                                             LAMBDA r : r \in n.handles), FALSE)
        images == ReleaseEach(backdrop, SelectSeq(<<"render_buffer">>,
                                                  LAMBDA r : r \in n.handles), FALSE)
        closed == ReleaseEach(images,
                              SelectSeq(<<"font">>, LAMBDA r : r \in n.handles)
                                \o <<"xft_draw", "gc", "window", "display">>,
                              TRUE)
        freed  == Release(ReleaseEach(closed,
                              <<"text_color", "highlight_color", "background_color">>,
                              TRUE), "core", FALSE)
    IN  ( IF "render_buffer" \in n.handles /\ "render_buffer" \notin n.held
          THEN {Killed(backdrop)} ELSE {} )
        \cup {Killed(closed), Done(freed)}

----------------------------------------------------------------------------
(* The backdrop of xlunch_native_init: the root-pixmap lookup, the chain   *)
(* of XGetImage attempts, the copy into the image data of the backdrop     *)
(* (DATA32 *direct, width * height pixels, row by row) and the darkening.  *)
(* env says what the X server answers: primary and secondary are the       *)
(* answers to the two property queries ("fails": the call does not return  *)
(* Success; "nodata": it returns Success and no data; "id": it returns a   *)
(* pixmap id), got[a] whether XGetImage attempt a returns an image, root   *)
(* the size of the root window, win the window's position on it, and seed  *)
(* and upper the pixels of the root image.                                 *)

\* a DATA32 pixel, 0xAARRGGBB, as its four bytes
Pixel(a, r, g, b) == <<a, r, g, b>>

Alpha(pixel) == pixel[1]      \* pixel >> 24
Red(pixel) == pixel[2]        \* (pixel >> 16) & 0xFF
Green(pixel) == pixel[3]      \* (pixel >> 8) & 0xFF
Blue(pixel) == pixel[4]       \* pixel & 0xFF

OpaqueBlack == Pixel(255, 0, 0, 0)      \* 0xFF000000

Attempts == {"first", "mask0", "mask1", "mask2", "mask3", "probe", "retry"}

\* XGetPixel(img, sx, sy): the three channels vary with seed and position,
\* the byte above them is whatever the server left there
XGetPixel(env, sx, sy) ==
    Pixel(env.upper, (env.seed + sx) % 256, (env.seed + 2 + sy) % 256,
          (env.seed * 7 + 3) % 256)

\* GetRootPixmap: the property names queried, in order, and whether a
\* pixmap id came back
GetRootPixmap(env) ==
    IF env.primary # "fails"
    THEN [queries |-> <<"_XROOTPMAP_ID">>, found |-> env.primary = "id"]
    ELSE [queries |-> <<"_XROOTPMAP_ID", "_XROOTMAP_ID">>,
          found |-> env.secondary = "id"]

\* the result of a capture function: its return value, the property names
\* it queried, the XGetImage attempts it made, the image data and the
\* indices it wrote
Captured(ok, queries, attempts, direct, written) ==
    [ok |-> ok, queries |-> queries, attempts |-> attempts,
     direct |-> direct, written |-> written]

\* the plane masks tried from index i on, until one yields an image
RECURSIVE PlaneMasks(_, _)
PlaneMasks(env, i) ==
    IF i >= 4 THEN <<>>
    ELSE LET mask == <<"mask0", "mask1", "mask2", "mask3">>[i + 1]
         IN  IF env.got[mask] THEN <<mask>> ELSE <<mask>> \o PlaneMasks(env, i + 1)

\* Faulty variant: a probe that succeeds counts as the capture, whatever
\* the full-region retry yields.
CaptureAlternativeProbeIsEnough(x, env, direct) ==
    LET masks    == PlaneMasks(env, 0)
        by_mask  == env.got[masks[Len(masks)]]
        probing  == IF by_mask THEN <<>>
                    ELSE IF env.got["probe"] THEN <<"probe", "retry">> ELSE <<"probe">>
        img      == by_mask \/ env.got["probe"]
        center_x == CDiv(env.root[1] - x.width, 2)
        center_y == CDiv(env.root[2] - x.height, 2)
    IN  IF ~img THEN Captured(FALSE, <<>>, masks \o probing, direct, {})
        ELSE Captured(TRUE, <<>>, masks \o probing,
                 [ i \in DOMAIN direct |->
                     LET src_x == center_x + (i % x.width)
                         src_y == center_y + (i \div x.width)
                     IN  IF /\ src_x >= 0 /\ src_y >= 0
                            /\ src_x < env.root[1] /\ src_y < env.root[2]
                         THEN [XGetPixel(env, src_x, src_y) EXCEPT ![1] = 0]
                         ELSE OpaqueBlack ],
                 DOMAIN direct)

\* xl_capture_desktop_alternative: the four plane masks, then a 100x100
\* probe and, if the probe yields an image, the full region once more; the
\* window is taken to be centered on the root window
xl_capture_desktop_alternative(x, env, direct) ==
    LET masks    == PlaneMasks(env, 0)
        by_mask  == env.got[masks[Len(masks)]]
        probing  == IF by_mask THEN <<>>
                    ELSE IF env.got["probe"] THEN <<"probe", "retry">> ELSE <<"probe">>
        img      == by_mask \/ (env.got["probe"] /\ env.got["retry"])
        center_x == CDiv(env.root[1] - x.width, 2)
        center_y == CDiv(env.root[2] - x.height, 2)
    IN  IF ~img THEN Captured(FALSE, <<>>, masks \o probing, direct, {})
        ELSE Captured(TRUE, <<>>, masks \o probing,
                 [ i \in DOMAIN direct |->
                     LET src_x == center_x + (i % x.width)
                         src_y == center_y + (i \div x.width)
                     IN  IF /\ src_x >= 0 /\ src_y >= 0
                            /\ src_x < env.root[1] /\ src_y < env.root[2]
                         THEN [XGetPixel(env, src_x, src_y) EXCEPT ![1] = 0]
                         ELSE OpaqueBlack ],
                 DOMAIN direct)

\* xl_get_root_image_to_imlib_data: the pixmap GetRootPixmap found, or the
\* root window, is fetched first; the two copy loops stop at the right and
\* bottom edge of the image, so pixels of the window beyond it keep what
\* the image data held before
xl_get_root_image_to_imlib_data(x, env, direct) ==
    LET bg    == GetRootPixmap(env)
        first == IF bg.found THEN "pixmap" ELSE "root"
        alt   == xl_capture_desktop_alternative(x, env, direct)
        inside == { i \in DOMAIN direct :
                      /\ (i \div x.width) + env.win[2] < env.root[2]
                      /\ (i % x.width) + env.win[1] < env.root[1] }
    IN  IF ~env.got["first"]
        THEN [alt EXCEPT !.queries = bg.queries, !.attempts = <<first>> \o @]
        ELSE Captured(TRUE, bg.queries, <<first>>,
                 [ i \in DOMAIN direct |->
                     LET src_x == (i % x.width) + env.win[1]
                         src_y == (i \div x.width) + env.win[2]
                     IN  IF i \notin inside THEN direct[i]
                         ELSE IF /\ src_x >= 0 /\ src_y >= 0
                                 /\ src_x < env.root[1] /\ src_y < env.root[2]
                         THEN XGetPixel(env, src_x, src_y)
                         ELSE OpaqueBlack ],
                 inside)

\* Faulty variant: the darkening keeps the byte above the three channels.
DarkenKeepsUpperByte(pixel) ==
    LET r == Red(pixel)
        g == Green(pixel)
        b == Blue(pixel)
    IN  Pixel(Alpha(pixel), CDiv(r * (255 - 160), 255),
              CDiv(g * (255 - 160), 255), CDiv(b * (255 - 160), 255))

\* the overlay of xlunch_native_init on one pixel: each channel times 95
\* over 255, stored under 0xFF000000
Darken(pixel) ==
    LET r == Red(pixel)
        g == Green(pixel)
        b == Blue(pixel)
    IN  Pixel(255, CDiv(r * (255 - 160), 255),
              CDiv(g * (255 - 160), 255), CDiv(b * (255 - 160), 255))

\* imlib_context_set_color(46, 52, 64, 255) as a pixel of the image data
FlatPixel == Pixel(255, FallbackColor[1], FallbackColor[2], FallbackColor[3])

----------------------------------------------------------------------------
(* Inputs of the model.                                                    *)

\* <<width, height, icon_size>> passed to xlunch_native_init:
\*   800x600x64   cell 104x124, cols 7, rows 4, 3 fully visible rows
\*   1000x800x100 cell 140x160, cols 7, rows 4, 4 fully visible rows
\*   100x400x64   cols 0 (the window is narrower than one cell)
\*   10x10x64     narrower and lower than the padding: cols 0, rows 0
Layouts == {<<800, 600, 64>>, <<1000, 800, 100>>, <<100, 400, 64>>, <<10, 10, 64>>}

\* what the never-assigned num_entries may hold after malloc
Garbage == {0, 5}

\* entry counts the host supplies
EntryCounts == {0, 3, 50}

\* targets of direct xlunch_native_set_scroll_level calls
ScrollRequests == {-FarScroll, 2, FarScroll}

ScrollKeys == {KeyPageUp, KeyPageDown, KeyHome, KeyEnd, KeyUp, KeyDown}
WheelButtons == {Button4, Button5}
OtherButtons == {2}
Keycodes == {KeyEscape} \cup ScrollKeys \cup {38}

FullRows(x) == CDiv(x.height - HeaderHeight, x.cell_height)

\* entries whose icon the user clicks: the first entry, the last one and
\* the last entry of the fully visible rows; the host draws entry i at
\* xlunch_native_calculate_entry_position(i)
ClickedEntries(x) ==
    IF x.cols = 0 THEN {}
    ELSE { i \in { 0,
                   x.num_entries - 1,
                   (x.scrolled_past + FullRows(x)) * x.cols - 1 } :
           0 <= i /\ i < x.num_entries }

\* pointer positions of grid clicks: the icons above, a point inside cell
\* (row 0, col 1), the first cell of the row below the fully visible rows,
\* a point left of the window and one right of the last column
GridPoints(x) ==
    { xlunch_native_calculate_entry_position(x, i) : i \in ClickedEntries(x) }
    \cup { [x |-> x.cell_width + 6, y |-> HeaderHeight + 5],
           [x |-> 0, y |-> HeaderHeight + FullRows(x) * x.cell_height],
           [x |-> -1, y |-> HeaderHeight],
           [x |-> x.cols * x.cell_width, y |-> HeaderHeight] }

\* pointer positions in the header: inside the settings rectangle, inside
\* the logo rectangle, the window origin and, in a window so narrow that
\* the two rectangles intersect, the top-left corner of the intersection
HeaderPoints(x) ==
    { [x |-> x.settings_x + 70, y |-> x.settings_y + 26],
      [x |-> x.logo_x + 200, y |-> x.logo_y + 90],
      [x |-> 0, y |-> 0] }
    \cup ( IF /\ x.settings_x <= x.logo_x + x.logo_w
              /\ x.logo_x <= x.settings_x + x.settings_w
           THEN {[x |-> x.logo_x, y |-> x.settings_y]}
           ELSE {} )

Events(x) ==
    {Key(k) : k \in Keycodes}
    \cup {Event("ButtonPress", Button1, p.x, p.y) : p \in GridPoints(x) \cup HeaderPoints(x)}
    \cup {Event("ButtonPress", b, 0, HeaderHeight) : b \in WheelButtons \cup OtherButtons}
    \cup {Event("MotionNotify", 0, p.x, p.y) : p \in HeaderPoints(x)}
    \cup {Event(t, 0, 0, 0) :
            t \in {"Expose", "ClientMessage", "EnterNotify", "LeaveNotify", "ButtonRelease"}}

----------------------------------------------------------------------------
(* The state machine.                                                      *)

\* again: the call repeats the set_scroll_level call made just before it;
\* old_hover: the two hover flags before the call
Call(op, event, new_scroll, old_scroll, old_hover, r, again) ==
    [op |-> op, event |-> event, new_scroll |-> new_scroll,
     old_scroll |-> old_scroll, old_hover |-> old_hover,
     ret |-> r, again |-> again]

Hover(x) == <<x.settings_button_hovered, x.logo_button_hovered>>

NoCall == Call("none", NoEvent, 0, 0, <<0, 0>>, 0, FALSE)

\* an environment that grants everything xlunch_native_init asks for
Granted ==
    [ malloc |-> TRUE, display |-> TRUE, font |-> TRUE,
      render_buffer |-> TRUE, background_image |-> TRUE, capture |-> TRUE ]

\* what the host's selected_entry variable may hold before the first poll
StaleSelection == {NoSelection, 7}

Init ==
    /\ \E l \in Layouts, g \in Garbage : xl = xlunch_native_init(l[1], l[2], l[3], g)
    /\ pc = "setup"
    /\ queue = <<>>
    /\ selected_entry \in StaleSelection
    /\ call = NoCall
    /\ native = InitSurface(Granted)

\* the host supplies the entry count before it shows the window
HostSetEntries(n) ==
    /\ pc = "setup"
    /\ xl' = [xl EXCEPT !.entries_count = n, !.num_entries = n]
    /\ call' = NoCall
    /\ UNCHANGED <<pc, queue, selected_entry, native>>

\* the host disables scrolling before it shows the window
HostSetNoscroll ==
    /\ pc = "setup" /\ xl.noscroll = 0
    /\ xl' = [xl EXCEPT !.noscroll = 1]
    /\ call' = NoCall
    /\ UNCHANGED <<pc, queue, selected_entry, native>>

\* xlunch_native_show maps the window; events arrive from then on
Show ==
    /\ pc = "setup"
    /\ pc' = "loop"
    /\ call' = NoCall
    /\ UNCHANGED <<xl, queue, selected_entry, native>>

\* the X server delivers an event to the connection's queue
Arrive(event) ==
    /\ pc = "loop"
    /\ Len(queue) < MaxQueue
    /\ queue' = Append(queue, event)
    /\ call' = NoCall
    /\ UNCHANGED <<xl, pc, selected_entry, native>>

\* the host calls xlunch_native_set_scroll_level directly
SetScrollLevel(new_scroll) ==
    /\ pc = "loop"
    /\ \E o \in xlunch_native_set_scroll_level(xl, new_scroll) :
          /\ pc' = IF o.crash THEN "killed" ELSE pc
          /\ xl' = o.xl
          /\ call' = IF o.crash THEN NoCall
                     ELSE Call("set_scroll_level", NoEvent, new_scroll,
                               xl.scrolled_past, Hover(xl), o.ret,
                               call.op = "set_scroll_level"
                                 /\ call.new_scroll = new_scroll)
    /\ UNCHANGED <<queue, selected_entry, native>>

\* the host polls: xlunch_native_handle_events with no event pending
HandleNoEvent ==
    /\ pc = "loop"
    /\ queue = <<>>
    /\ selected_entry' = NoSelection
    /\ call' = Call("handle_events", NoEvent, 0, xl.scrolled_past, Hover(xl),
                  RetContinue, FALSE)
    /\ UNCHANGED <<xl, pc, queue, native>>

\* Faulty variant: the call takes the newest pending event.
HandleEventNewestFirst ==
    /\ pc = "loop"
    /\ queue # <<>>
    /\ queue' = SubSeq(queue, 1, Len(queue) - 1)
    /\ UNCHANGED native
    /\ \E o \in xlunch_native_handle_events(xl, queue[Len(queue)]) :
          /\ pc' = IF o.crash THEN "killed"
                   ELSE IF o.ret = RetQuit THEN "quit" ELSE pc
          /\ xl' = o.xl
          /\ selected_entry' = o.selected_entry
          /\ call' = IF o.crash THEN NoCall
                     ELSE Call("handle_events", queue[Len(queue)], 0,
                               xl.scrolled_past, Hover(xl), o.ret, FALSE)

\* Faulty variant: *selected_entry is written only when an entry is selected.
HandleEventKeepsSelection ==
    /\ pc = "loop"
    /\ queue # <<>>
    /\ queue' = Tail(queue)
    /\ UNCHANGED native
    /\ \E o \in xlunch_native_handle_events(xl, Head(queue)) :
          /\ pc' = IF o.crash THEN "killed"
                   ELSE IF o.ret = RetQuit THEN "quit" ELSE pc
          /\ xl' = o.xl
          /\ selected_entry' = IF o.selected_entry = NoSelection
                               THEN selected_entry ELSE o.selected_entry
          /\ call' = IF o.crash THEN NoCall
                     ELSE Call("handle_events", Head(queue), 0,
                               xl.scrolled_past, Hover(xl), o.ret, FALSE)

\* the host polls: xlunch_native_handle_events takes the oldest event; the
\* host leaves its loop when the call returns 0
HandleEvent ==
    /\ pc = "loop"
    /\ queue # <<>>
    /\ queue' = Tail(queue)
    /\ UNCHANGED native
    /\ \E o \in xlunch_native_handle_events(xl, Head(queue)) :
          /\ pc' = IF o.crash THEN "killed"
                   ELSE IF o.ret = RetQuit THEN "quit" ELSE pc
          /\ xl' = o.xl
          /\ selected_entry' = o.selected_entry
          /\ call' = IF o.crash THEN NoCall
                     ELSE Call("handle_events", Head(queue), 0,
                               xl.scrolled_past, Hover(xl), o.ret, FALSE)

Next ==
    \/ \E n \in EntryCounts : HostSetEntries(n)
    \/ HostSetNoscroll
    \/ Show
    \/ \E event \in Events(xl) : Arrive(event)
    \/ \E new_scroll \in ScrollRequests : SetScrollLevel(new_scroll)
    \/ HandleNoEvent
    \/ HandleEvent

Spec == Init /\ [][Next]_vars

----------------------------------------------------------------------------
(* A burst of input: MaxBurst events are pending when the host starts to   *)
(* poll and nothing arrives while it does.                                  *)

BurstEvents ==
    { Key(KeyEscape), Key(KeyDown), Key(38),
      Event("Expose", 0, 0, 0), Event("EnterNotify", 0, 0, 0) }

InitBurst ==
    /\ \E l \in Layouts, n \in EntryCounts :
          xl = [xlunch_native_init(l[1], l[2], l[3], n) EXCEPT !.entries_count = n]
    /\ pc = "loop"
    /\ queue \in [1..MaxBurst -> BurstEvents]
    /\ selected_entry \in StaleSelection
    /\ call = NoCall
    /\ native = InitSurface(Granted)

NextBurst ==
    \/ HandleNoEvent
    \/ HandleEvent

SpecBurst == InitBurst /\ [][NextBurst]_vars

----------------------------------------------------------------------------
(* Rendering and teardown: the host renders frames (clear, draw calls,     *)
(* present) on the context xlunch_native_init returned, may change the     *)
(* theme between frames, and ends with xlunch_native_cleanup.              *)

\* contexts whose entries fit the grid, overflow it, or meet cols == 0
LifeLayouts == {<<800, 600, 64>>, <<100, 400, 64>>}
LifeEntryCounts == {3, 50}

InitLife ==
    /\ \E l \in LifeLayouts, n \in LifeEntryCounts :
          xl = [xlunch_native_init(l[1], l[2], l[3], n) EXCEPT !.entries_count = n]
    /\ \E env \in Envs : native = InitSurface(env)
    /\ pc = IF native.result = "null" THEN "null" ELSE "ready"
    /\ queue = <<>>
    /\ selected_entry = NoSelection
    /\ call = NoCall

\* one call on the native side: from, the host's position before it; to,
\* its position when the call returns
Render(outcomes, from, to) ==
    /\ pc \in from
    /\ \E o \in outcomes :
          /\ native' = o.native
          /\ pc' = IF o.crash THEN "killed" ELSE to
    /\ UNCHANGED <<xl, queue, selected_entry, call>>

SetThemeColors(theme) ==
    Render(xlunch_native_set_theme_colors(native, theme), {"ready"}, "ready")

Clear == Render(xlunch_native_clear(native), {"ready", "frame"}, "frame")

DrawText == Render(xlunch_native_draw_text(native), {"frame"}, "frame")

DrawRect == Render(xlunch_native_draw_rect(native), {"frame"}, "frame")

DrawRoundedRect ==
    Render(xlunch_native_draw_rounded_rect(native), {"frame"}, "frame")

DrawIcon(loaded) ==
    Render(xlunch_native_draw_icon(native, loaded), {"frame"}, "frame")

DrawScrollbar ==
    Render(xlunch_native_draw_scrollbar(xl, native), {"frame"}, "frame")

Present == Render(xlunch_native_present(native), {"frame"}, "ready")

Cleanup == Render(xlunch_native_cleanup(native), {"ready"}, "closed")

NextLife ==
    \/ \E theme \in Themes : SetThemeColors(theme)
    \/ Clear
    \/ DrawText
    \/ DrawRect
    \/ DrawRoundedRect
    \/ \E loaded \in BOOLEAN : DrawIcon(loaded)
    \/ DrawScrollbar
    \/ Present
    \/ Cleanup

SpecLife == InitLife /\ [][NextLife]_vars

----------------------------------------------------------------------------
(* Scroll state machine (spec 4.4, 8).                                     *)

IsScenario(x) == x.width = 800 /\ x.height = 600 /\ x.icon_size = 64

Max0(a) == IF a < 0 THEN 0 ELSE a

\* the upper bound of the offset as the specification states it
maxScroll(x) == Max0(CDiv(x.entries_count - 1, x.cols) - x.rows + 1)

\* C1: with cols >= 1 and the entry count fixed once the window is shown,
\* the offset is always within 0..maxScroll and no scroll request kills
\* the process; in the 800x600x64 layout with 50 entries a request of
\* FarScroll from offset 0 ends at 4 and reports changed.
C1_OffsetWithinRange ==
    /\ xl.cols >= 1 =>
          /\ pc # "killed"
          /\ 0 <= xl.scrolled_past
          /\ xl.scrolled_past <= maxScroll(xl)
    /\ ( /\ IsScenario(xl) /\ xl.entries_count = 50 /\ xl.noscroll = 0
         /\ call.op = "set_scroll_level"
         /\ call.new_scroll = FarScroll /\ call.old_scroll = 0 )
       => (xl.scrolled_past = 4 /\ call.ret = 1)

C1_Witness ==
    /\ IsScenario(xl) /\ xl.entries_count = 50
    /\ call.op = "set_scroll_level"
    /\ call.new_scroll = FarScroll /\ call.old_scroll = 0
    /\ xl.scrolled_past = 4 /\ call.ret = 1

\* C2: a set_scroll_level call that repeats the preceding call's target
\* reports unchanged and leaves the offset where the first call left it.
C2_Idempotent ==
    (call.op = "set_scroll_level" /\ call.again)
       => (call.ret = 0 /\ xl.scrolled_past = call.old_scroll)

C2_Witness ==
    /\ call.op = "set_scroll_level" /\ call.again
    /\ call.new_scroll = FarScroll
    /\ xl.entries_count = 50 /\ xl.noscroll = 0
    /\ xl.scrolled_past = 4 /\ call.ret = 0

\* C3: the flag returned by set_scroll_level is 1 exactly when the offset
\* after the call differs from the offset before it, and 0 otherwise.
C3_ChangedIffMoved ==
    call.op = "set_scroll_level"
       => /\ call.ret \in {0, 1}
          /\ call.ret = 1 <=> xl.scrolled_past # call.old_scroll

\* a request that differs from the offset and clamps back to it
C3_Witness ==
    /\ call.op = "set_scroll_level"
    /\ xl.noscroll = 0 /\ xl.cols >= 1
    /\ call.new_scroll = -FarScroll /\ call.old_scroll = 0
    /\ xl.scrolled_past = 0 /\ call.ret = 0

\* C4: a set_scroll_level call whose target equals the offset, or that is
\* made with noscroll set, returns 0 and changes no field of the context.
C4_NoOpLeavesContext ==
    [][ ( /\ call'.op = "set_scroll_level"
          /\ (call'.new_scroll = xl.scrolled_past \/ xl.noscroll # 0) )
        => (xl' = xl /\ call'.ret = 0) ]_vars

C4_Witness ==
    /\ call.op = "set_scroll_level"
    /\ xl.noscroll = 1
    /\ call.new_scroll = FarScroll
    /\ xl.scrolled_past = 0 /\ call.ret = 0

----------------------------------------------------------------------------
(* Event dispatcher (spec 4.6).                                            *)

IsScrollInput(e) ==
    \/ e.type = "KeyPress" /\ e.code \in ScrollKeys
    \/ e.type = "ButtonPress" /\ e.code \in WheelButtons

\* the offset a scroll input asks for, as the specification lists them
RequestedBy(e, old, x) ==
    IF e.type = "KeyPress"
    THEN CASE e.code = KeyPageUp   -> old - x.rows
           [] e.code = KeyPageDown -> old + x.rows
           [] e.code = KeyHome     -> 0
           [] e.code = KeyEnd      -> x.entries_count
           [] e.code = KeyUp       -> old - 1
           [] e.code = KeyDown     -> old + 1
    ELSE IF e.code = Button4 THEN old - 1 ELSE old + 1

ClampedInto(t, x) ==
    IF t > maxScroll(x) THEN maxScroll(x) ELSE IF t < 0 THEN 0 ELSE t

\* C5: a scroll key or wheel event moves the offset to the requested value
\* clamped into 0..maxScroll (nowhere with noscroll set), returns redraw
\* (2) exactly when the offset changed and no-op (1) otherwise, and neither
\* ends the host's loop nor selects an entry.
C5_ScrollInputs ==
    (call.op = "handle_events" /\ IsScrollInput(call.event))
       => /\ call.ret \in {RetContinue, RetRedraw}
          /\ call.ret = RetRedraw <=> xl.scrolled_past # call.old_scroll
          /\ selected_entry = NoSelection
          /\ pc = "loop"
          /\ xl.cols >= 1 =>
                xl.scrolled_past =
                   IF xl.noscroll # 0 THEN call.old_scroll
                   ELSE ClampedInto(RequestedBy(call.event, call.old_scroll, xl), xl)

C5_Witness ==
    /\ call.op = "handle_events"
    /\ call.event = Key(KeyPageDown)
    /\ IsScenario(xl) /\ xl.entries_count = 50
    /\ call.old_scroll = 0 /\ xl.scrolled_past = 4
    /\ call.ret = RetRedraw

\* what a handle_events call amounted to, judged by its event and effect
IsTerminate(c, x, sel) ==
    \/ c.event = Key(KeyEscape)
    \/ c.event.type = "ClientMessage"
    \/ sel # NoSelection

IsRedraw(c, x) ==
    \/ c.event.type = "Expose"
    \/ IsScrollInput(c.event) /\ x.scrolled_past # c.old_scroll

IsHeaderButton(c, x) ==
    /\ c.event.type = "ButtonPress" /\ c.event.code = Button1
    /\ c.event.y < HeaderHeight
    /\ xlunch_native_check_button_hover(x, c.event.x, c.event.y) # 0

IsNoOp(c, x, sel) ==
    /\ c.event # NoEvent
    /\ ~IsTerminate(c, x, sel) /\ ~IsRedraw(c, x) /\ ~IsHeaderButton(c, x)

\* C6 as stated: continue (nothing pending), no-op (an event consumed, no
\* redraw needed), redraw and terminate have pairwise different results.
C6_FourDistinctResults ==
    call.op = "handle_events"
       => /\ call.event = NoEvent => call.ret = RetContinue
          /\ IsTerminate(call, xl, selected_entry) => call.ret = RetQuit
          /\ IsRedraw(call, xl) => call.ret = RetRedraw
          /\ IsNoOp(call, xl, selected_entry)
                => call.ret \notin {RetContinue, RetQuit, RetRedraw}

\* C6 amended: continue and no-op share the result 1; that result, redraw
\* (2) and terminate (0) are pairwise different.
C6_ThreeDistinctResults ==
    call.op = "handle_events"
       => /\ call.event = NoEvent => call.ret = RetContinue
          /\ IsTerminate(call, xl, selected_entry) => call.ret = RetQuit
          /\ IsRedraw(call, xl) => call.ret = RetRedraw
          /\ IsNoOp(call, xl, selected_entry) => call.ret = RetContinue

\* an event was consumed without a redraw and the host got the result it
\* gets when nothing is pending
C6_Witness ==
    /\ call.op = "handle_events"
    /\ call.event = Key(38)
    /\ IsNoOp(call, xl, selected_entry)
    /\ call.ret = RetContinue

\* C7: an Escape key press returns 0 with *selected_entry = -1 and leaves
\* the scroll offset and both hover flags as they were.
C7_Escape ==
    [][ (call'.op = "handle_events" /\ call'.event = Key(KeyEscape))
        => /\ call'.ret = RetQuit
           /\ selected_entry' = NoSelection
           /\ xl'.scrolled_past = xl.scrolled_past
           /\ xl'.settings_button_hovered = xl.settings_button_hovered
           /\ xl'.logo_button_hovered = xl.logo_button_hovered ]_vars

C7_Witness ==
    /\ call.op = "handle_events" /\ call.event = Key(KeyEscape)
    /\ call.ret = RetQuit /\ selected_entry = NoSelection
    /\ xl.entries_count = 50
    /\ xl.scrolled_past = 4 /\ xl.settings_button_hovered = 1

----------------------------------------------------------------------------
(* Grid hit-testing (spec 4.3, 8).  The outcome of a click depends on the  *)
(* context alone, so besides the clicks that were dispatched the theorems  *)
(* apply the dispatcher to a lattice of points and to every entry          *)
(* position, once per context, in the states where nothing is pending.     *)

LeftClick(px, py) == Event("ButtonPress", Button1, px, py)

IsGridClick(e) ==
    e.type = "ButtonPress" /\ e.code = Button1 /\ e.y >= HeaderHeight

\* cell corners of every column and display row, the column right of the
\* grid and the rows below it, and a point left of the window
Lattice(x) ==
    { [x |-> px, y |-> py] :
        px \in {-1} \cup { c * x.cell_width + d :
                            c \in 0..Max0(x.cols), d \in {0, x.cell_width - 1} },
        py \in { HeaderHeight + r * x.cell_height + d :
                   r \in 0..(Max0(x.rows) + 1), d \in {0, x.cell_height - 1} } }

\* the hit-test as the specification states it, for a click at (px, py)
\* dispatched at scroll offset old with result r and selection sel
GridClickAsSpecified(x, px, py, old, r, sel) ==
    LET col        == CDiv(px, x.cell_width)
        displayRow == CDiv(py - HeaderHeight, x.cell_height)
        index      == (displayRow + old) * x.cols + col
    IN  \/ /\ r = RetQuit /\ sel = index
           /\ 0 <= col /\ col < x.cols /\ displayRow >= 0
           /\ 0 <= index /\ index < x.num_entries
        \/ /\ r = RetContinue /\ sel = NoSelection

\* C8: a left click at y >= 140 either returns 0 with exactly the index
\* (displayRow + offset) * cols + col, where col and displayRow are within
\* the grid and the index is below the entry count, or returns 1 with no
\* selection; in the 800x600x64 layout at offset 0 a click at (110, 145)
\* selects entry 1.
C8_GridClick ==
    /\ (call.op = "handle_events" /\ IsGridClick(call.event))
          => /\ GridClickAsSpecified(xl, call.event.x, call.event.y,
                                      call.old_scroll, call.ret, selected_entry)
             /\ xl.scrolled_past = call.old_scroll
    /\ ( /\ call.op = "handle_events" /\ call.event = LeftClick(110, 145)
         /\ IsScenario(xl) /\ call.old_scroll = 0 /\ xl.num_entries >= 2 )
          => (call.ret = RetQuit /\ selected_entry = 1)
    /\ queue = <<>> =>
          \A p \in Lattice(xl) :
             \A o \in xlunch_native_handle_events(xl, LeftClick(p.x, p.y)) :
                /\ ~o.crash /\ o.xl = xl
                /\ GridClickAsSpecified(xl, p.x, p.y, xl.scrolled_past,
                                        o.ret, o.selected_entry)

C8_Witness ==
    /\ call.op = "handle_events" /\ call.event = LeftClick(110, 145)
    /\ IsScenario(xl) /\ call.old_scroll = 0
    /\ pc = "quit" /\ call.ret = RetQuit /\ selected_entry = 1

\* C9: a left click whose display row is not below the number of fully
\* visible rows, (height - 140) / cell_height, selects nothing.
C9_ClippedRow ==
    /\ ( /\ call.op = "handle_events" /\ IsGridClick(call.event)
         /\ CDiv(call.event.y - HeaderHeight, xl.cell_height) >= FullRows(xl) )
          => (call.ret = RetContinue /\ selected_entry = NoSelection)
    /\ queue = <<>> =>
          \A p \in Lattice(xl) :
             CDiv(p.y - HeaderHeight, xl.cell_height) >= FullRows(xl)
                => \A o \in xlunch_native_handle_events(xl, LeftClick(p.x, p.y)) :
                      o.ret = RetContinue /\ o.selected_entry = NoSelection

\* a click in the clipped row of 800x600x64 whose index, 21, is an entry
C9_Witness ==
    /\ call.op = "handle_events"
    /\ call.event = LeftClick(0, HeaderHeight + FullRows(xl) * xl.cell_height)
    /\ IsScenario(xl) /\ xl.num_entries = 50 /\ call.old_scroll = 0
    /\ call.event.y < xl.height
    /\ call.ret = RetContinue /\ selected_entry = NoSelection

\* entry i is drawn in one of the fully visible rows
InView(x, i) ==
    LET displayRow == CDiv(i, x.cols) - x.scrolled_past
    IN  0 <= displayRow /\ displayRow < FullRows(x)

EntryOfClick(x, e) ==
    { i \in 0..(x.num_entries - 1) :
        LET p == xlunch_native_calculate_entry_position(x, i)
        IN  p.x = e.x /\ p.y = e.y }

\* C10: with cols >= 1, a left click at the position
\* xlunch_native_calculate_entry_position gives for entry i selects i when
\* i is drawn in a fully visible row, and does not select i otherwise.
C10_RoundTrip ==
    xl.cols >= 1 =>
       /\ ( call.op = "handle_events"
            /\ call.event.type = "ButtonPress" /\ call.event.code = Button1 )
             => \A i \in EntryOfClick(xl, call.event) :
                   IF InView(xl, i)
                   THEN call.ret = RetQuit /\ selected_entry = i
                   ELSE selected_entry # i
       /\ queue = <<>> =>
             \A i \in 0..(xl.num_entries - 1) :
                LET p == xlunch_native_calculate_entry_position(xl, i)
                IN  \A o \in xlunch_native_handle_events(xl, LeftClick(p.x, p.y)) :
                       IF InView(xl, i)
                       THEN o.ret = RetQuit /\ o.selected_entry = i
                       ELSE o.selected_entry # i

C10_Witness ==
    /\ call.op = "handle_events"
    /\ IsScenario(xl) /\ xl.num_entries = 50 /\ xl.scrolled_past = 4
    /\ 48 \in EntryOfClick(xl, call.event)
    /\ call.ret = RetQuit /\ selected_entry = 48

----------------------------------------------------------------------------
(* Hit-test and hover engine (spec 4.5, 8).  A button rectangle holds the  *)
(* points the code's comparisons accept: both edges of each side included. *)

OverSettings(x, px, py) ==
    /\ x.settings_x <= px /\ px <= x.settings_x + x.settings_w
    /\ x.settings_y <= py /\ py <= x.settings_y + x.settings_h

OverLogo(x, px, py) ==
    /\ x.logo_x <= px /\ px <= x.logo_x + x.logo_w
    /\ x.logo_y <= py /\ py <= x.logo_y + x.logo_h

\* the points on, just inside and just outside every edge of both rectangles
HoverLattice(x) ==
    { [x |-> px, y |-> py] :
        px \in { e + d : e \in { x.settings_x, x.settings_x + x.settings_w,
                                 x.logo_x, x.logo_x + x.logo_w },
                         d \in {-1, 0, 1} },
        py \in { e + d : e \in { x.settings_y, x.settings_y + x.settings_h,
                                 x.logo_y, x.logo_y + x.logo_h },
                         d \in {-1, 0, 1} } }

\* C11: xlunch_native_check_button_hover answers 1 (settings) only for a
\* point of the settings rectangle, 2 (logo) only for a point of the logo
\* rectangle and 0 (none) for every point outside both, and the two hover
\* flags are never set together.
C11_HoverExclusive ==
    /\ xl.settings_button_hovered \in {0, 1}
    /\ xl.logo_button_hovered \in {0, 1}
    /\ ~(xl.settings_button_hovered = 1 /\ xl.logo_button_hovered = 1)
    /\ queue = <<>> =>
          \A p \in HoverLattice(xl) :
             LET button == xlunch_native_check_button_hover(xl, p.x, p.y)
             IN  /\ button \in {0, 1, 2}
                 /\ button = 1 => OverSettings(xl, p.x, p.y)
                 /\ button = 2 => OverLogo(xl, p.x, p.y)
                 /\ (~OverSettings(xl, p.x, p.y) /\ ~OverLogo(xl, p.x, p.y))
                       => button = 0

\* the pointer moved to a point that lies in both rectangles (a window 100
\* wide) while the logo flag was set: only the settings flag is set now
C11_Witness ==
    /\ call.op = "handle_events" /\ call.event.type = "MotionNotify"
    /\ OverSettings(xl, call.event.x, call.event.y)
    /\ OverLogo(xl, call.event.x, call.event.y)
    /\ call.old_hover = <<0, 1>>
    /\ Hover(xl) = <<1, 0>>

IsHeaderClick(e) ==
    e.type = "ButtonPress" /\ e.code = Button1 /\ e.y < HeaderHeight

\* a header click as the specification's table states it: each rectangle
\* has its own result
HeaderClickAsSpecified(x, px, py, r, sel) ==
    /\ OverSettings(x, px, py) => r = RetSettings
    /\ OverLogo(x, px, py) => r = RetLogo
    /\ (~OverSettings(x, px, py) /\ ~OverLogo(x, px, py)) => r = RetContinue
    /\ r # RetQuit /\ sel = NoSelection

\* the same with the order the code tests the rectangles in
HeaderClickSettingsFirst(x, px, py, r, sel) ==
    /\ r = IF OverSettings(x, px, py) THEN RetSettings
           ELSE IF OverLogo(x, px, py) THEN RetLogo
           ELSE RetContinue
    /\ r # RetQuit /\ sel = NoSelection

\* C12 as stated: a left click at y < 140 returns -2 over the settings
\* rectangle, -3 over the logo rectangle and 1 elsewhere, never 0, and
\* selects nothing.
C12_HeaderClick ==
    /\ (call.op = "handle_events" /\ IsHeaderClick(call.event))
          => /\ HeaderClickAsSpecified(xl, call.event.x, call.event.y,
                                        call.ret, selected_entry)
             /\ pc = "loop"
    /\ queue = <<>> =>
          \A p \in HoverLattice(xl) :
             \A o \in xlunch_native_handle_events(xl, LeftClick(p.x, p.y)) :
                HeaderClickAsSpecified(xl, p.x, p.y, o.ret, o.selected_entry)

\* C12 amended: a left click at y < 140 returns -2 over the settings
\* rectangle, -3 over the logo rectangle where the settings rectangle does
\* not cover it, and 1 elsewhere; it never returns 0, selects nothing and
\* leaves the context as it was, whatever the offset and the entry count.
C12_HeaderClickSettingsFirst ==
    /\ (call.op = "handle_events" /\ IsHeaderClick(call.event))
          => /\ HeaderClickSettingsFirst(xl, call.event.x, call.event.y,
                                          call.ret, selected_entry)
             /\ pc = "loop"
             /\ xl.scrolled_past = call.old_scroll
             /\ Hover(xl) = call.old_hover
    /\ queue = <<>> =>
          \A p \in HoverLattice(xl) :
             \A o \in xlunch_native_handle_events(xl, LeftClick(p.x, p.y)) :
                /\ ~o.crash /\ o.xl = xl
                /\ HeaderClickSettingsFirst(xl, p.x, p.y, o.ret, o.selected_entry)

\* a click on a point of both rectangles opened the settings, with entries
\* present
C12_Witness ==
    /\ call.op = "handle_events" /\ IsHeaderClick(call.event)
    /\ OverSettings(xl, call.event.x, call.event.y)
    /\ OverLogo(xl, call.event.x, call.event.y)
    /\ xl.num_entries = 50
    /\ call.ret = RetSettings /\ selected_entry = NoSelection /\ pc = "loop"

Motion(px, py) == Event("MotionNotify", 0, px, py)

\* the hover flags the specification derives from resolveButton(px, py)
HoverAsSpecified(x, px, py) ==
    << IF xlunch_native_check_button_hover(x, px, py) = 1 THEN 1 ELSE 0,
       IF xlunch_native_check_button_hover(x, px, py) = 2 THEN 1 ELSE 0 >>

\* C13: after a pointer-motion event at (x, y) the hover flags are
\* (resolveButton(x, y) = settings, resolveButton(x, y) = logo) whatever
\* they were before, and the dispatcher returns 1 (no-op), never 2
\* (redraw), also when a flag changed.
C13_MotionRecomputesHover ==
    /\ (call.op = "handle_events" /\ call.event.type = "MotionNotify")
          => /\ Hover(xl) = HoverAsSpecified(xl, call.event.x, call.event.y)
             /\ call.ret = RetContinue
             /\ selected_entry = NoSelection
    /\ queue = <<>> =>
          \A p \in HoverLattice(xl), s \in {0, 1}, l \in {0, 1} :
             LET before == [xl EXCEPT !.settings_button_hovered = s,
                                      !.logo_button_hovered = l]
             IN  \A o \in xlunch_native_handle_events(before, Motion(p.x, p.y)) :
                    /\ ~o.crash
                    /\ Hover(o.xl) = HoverAsSpecified(xl, p.x, p.y)
                    /\ o.ret = RetContinue

\* the pointer went from the settings button to the logo: both flags
\* changed and the result is still 1
C13_Witness ==
    /\ call.op = "handle_events" /\ call.event.type = "MotionNotify"
    /\ call.old_hover = <<1, 0>>
    /\ Hover(xl) = <<0, 1>>
    /\ call.ret = RetContinue

IsCrossing(e) == e.type \in {"EnterNotify", "LeaveNotify"}

\* C14: a pointer enter or leave event leaves both hover flags clear
\* whatever they were, returns 1 (no-op) and does not move the offset.
C14_CrossingClearsHover ==
    /\ (call.op = "handle_events" /\ IsCrossing(call.event))
          => /\ Hover(xl) = <<0, 0>>
             /\ call.ret = RetContinue
             /\ selected_entry = NoSelection
             /\ xl.scrolled_past = call.old_scroll
    /\ queue = <<>> =>
          \A t \in {"EnterNotify", "LeaveNotify"}, s \in {0, 1}, l \in {0, 1} :
             LET before == [xl EXCEPT !.settings_button_hovered = s,
                                      !.logo_button_hovered = l]
             IN  \A o \in xlunch_native_handle_events(before, Event(t, 0, 0, 0)) :
                    /\ ~o.crash
                    /\ o.xl = [xl EXCEPT !.settings_button_hovered = 0,
                                         !.logo_button_hovered = 0]
                    /\ o.ret = RetContinue

\* the pointer left the window from the settings button, with the grid
\* scrolled to the end
C14_Witness ==
    /\ call.op = "handle_events" /\ call.event.type = "LeaveNotify"
    /\ call.old_hover = <<1, 0>>
    /\ Hover(xl) = <<0, 0>>
    /\ xl.entries_count = 50 /\ call.old_scroll = 4 /\ xl.scrolled_past = 4
    /\ call.ret = RetContinue

----------------------------------------------------------------------------
(* Polling (spec 4.6, 5).                                                  *)

\* C15: a xlunch_native_handle_events call that returns takes nothing from
\* an empty queue, returning 1 with the context untouched, and otherwise
\* removes exactly the oldest pending event and has the effect of
\* dispatching that event; so n pending events are consumed by n calls, in
\* arrival order.
C15_OneEventPerPoll ==
    [][ call'.op = "handle_events"
        => IF queue = <<>>
           THEN /\ queue' = <<>>
                /\ call'.event = NoEvent /\ call'.ret = RetContinue
                /\ xl' = xl
           ELSE /\ queue' = Tail(queue)
                /\ Len(queue') = Len(queue) - 1
                /\ call'.event = Head(queue)
                /\ \E o \in xlunch_native_handle_events(xl, Head(queue)) :
                      /\ xl' = o.xl /\ call'.ret = o.ret
                      /\ selected_entry' = o.selected_entry ]_vars

\* of the burst Down, Expose, Enter the first call scrolled to row 1, the
\* second has just handled Expose and the third event is still pending
C15_Witness ==
    /\ call.op = "handle_events"
    /\ IsScenario(xl) /\ xl.entries_count = 50
    /\ xl.scrolled_past = 1
    /\ call.event = Event("Expose", 0, 0, 0) /\ call.ret = RetRedraw
    /\ queue = <<Event("EnterNotify", 0, 0, 0)>>

----------------------------------------------------------------------------
(* Render pipeline (spec 4.1, 4.2).                                        *)

\* C16: with a render buffer, the window's content changes only in
\* xlunch_native_present, and after present the window shows the render
\* buffer with every item drawn since the frame's clear.
C16_DrawsGoToBuffer ==
    [][ ("render_buffer" \in native.handles /\ pc' # "killed")
        => /\ native'.window # native.window => (pc = "frame" /\ pc' = "ready")
           /\ (pc = "frame" /\ pc' = "ready")
                 => /\ native'.window = native.buffer
                    /\ native.frame \subseteq native'.window.items ]_vars

----------------------------------------------------------------------------
(* Teardown (spec 5, 6).                                                   *)

\* the dependency levels of the specification: images, drawing context,
\* window, display connection; the structure itself goes last
Level(r) ==
    IF r \in {"background_image", "render_buffer"} THEN 1
    ELSE IF r \in {"font", "xft_draw", "gc"} \cup Colors THEN 2
    ELSE IF r = "window" THEN 3
    ELSE IF r \in {"colormap", "display"} THEN 4
    ELSE 5

\* C17: the release calls of xlunch_native_cleanup come in reverse
\* dependency order, images before the drawing context before the window
\* before the display connection, and no release call that takes the
\* display is made after the display was closed.
C17_ReverseDependencyOrder ==
    LET log == native.release_log
    IN  /\ \A i, j \in 1..Len(log) :
              i < j => Level(log[i].resource) <= Level(log[j].resource)
        /\ \A i \in 1..Len(log) : log[i].uses_display => log[i].display_open

Released(r) ==
    Cardinality({i \in 1..Len(native.release_log) : native.release_log[i].resource = r})

\* C18: every resource that xlunch_native_init acquired is released exactly
\* once, by init when it returns NULL and by xlunch_native_cleanup
\* otherwise; nothing is released that is not held, and when init has
\* failed or cleanup has returned nothing is still held, also after theme
\* changes and rendered frames.
C18_ReleasedExactlyOnce ==
    /\ native.misreleased = {}
    /\ \A r \in Resources : Released(r) <= 1
    /\ pc \in {"null", "closed"} =>
          /\ native.held = {}
          /\ \A r \in native.acquired : Released(r) = 1

----------------------------------------------------------------------------
(* Initialization failure and degraded resources (spec 6).                 *)

\* what one clear leaves on the surface it clears: the backdrop image when
\* there is one, the flat color 46,52,64 otherwise
ClearedTo(n) ==
    IF "background_image" \in n.handles THEN n.backdrop ELSE Flat(<<46, 52, 64>>)

\* C19: xlunch_native_init returns NULL exactly when malloc or XOpenDisplay
\* fails, and otherwise a context in which just the font, render buffer
\* and backdrop image that could not be obtained are NULL; on such a
\* context clear and present do not fail: without a render buffer clear
\* draws on the window and present does nothing, and without a backdrop
\* image the cleared surface is the flat color 46,52,64.
C19_DegradedInit ==
    /\ \A env \in Envs :
          /\ InitSurface(env).result = "null" <=> (~env.malloc \/ ~env.display)
          /\ InitSurface(env).result # "null"
                => /\ InitSurface(env).result = "context"
                   /\ InitSurface(env).handles = {r \in Degradable : env[r]}
    /\ [] ( pc = "frame" =>
               IF "render_buffer" \in native.handles
               THEN native.buffer.base = ClearedTo(native)
               ELSE native.window.base = ClearedTo(native) /\ native.buffer = Blank )
    /\ [][ /\ ("render_buffer" \notin native.handles /\ Clear)
                 => /\ pc' = "frame"
                    /\ native'.window = Surface(ClearedTo(native), {})
           /\ ("render_buffer" \in native.held /\ Clear)
                 => /\ pc' = "frame"
                    /\ native'.buffer = Surface(ClearedTo(native), {})
                    /\ native'.window = native.window
           /\ ("render_buffer" \notin native.handles /\ Present)
                 => /\ pc' = "ready"
                    /\ native' = native ]_vars

\* a context without font, render buffer and backdrop image rendered a
\* frame: the window was cleared to 46,52,64 and a rectangle drawn on it,
\* and present has returned
C19_Witness ==
    /\ native.result = "context" /\ native.handles = {}
    /\ pc = "ready"
    /\ native.window = Surface(Flat(<<46, 52, 64>>), {"rect"})
    /\ native.buffer = Blank

----------------------------------------------------------------------------
(* Layout parameters (spec 3, 8).                                          *)

LayoutOf(x) ==
    << x.width, x.height, x.icon_size, x.padding,
       x.cell_width, x.cell_height, x.cols, x.rows >>

\* the layout with the quotients as given: floor for the rounding toward
\* minus infinity the specification names, CDiv for C's truncation
LayoutAsSpecified(x, quotient(_, _)) ==
    /\ x.padding = 20
    /\ x.cell_width = x.icon_size + 40
    /\ x.cell_height = x.icon_size + 60
    /\ x.cols = quotient(x.width - x.padding, x.cell_width)
    /\ x.rows = quotient(x.height - x.padding, x.cell_height)
    /\ x.cols >= 0 /\ x.rows >= 0
    /\ IsScenario(x) => /\ x.cell_width = 104 /\ x.cell_height = 124
                        /\ x.cols = 7 /\ x.rows = 4

Floor(a, b) == a \div b

\* C20 as stated: cols and rows are the floors of the two quotients and
\* are not negative, for every size passed to xlunch_native_init.
C20_LayoutFloor ==
    LayoutAsSpecified(xl, Floor)

\* C20 amended: for positive width, height and icon size, padding is 20,
\* the cell is icon_size + 40 by icon_size + 60, cols and rows are the two
\* quotients truncated toward zero and are not negative, 800x600 with icon
\* 64 gives cell 104x124, cols 7, rows 4, and no step changes any of them.
C20_LayoutTruncated ==
    /\ [] ( /\ xl.width >= 1 /\ xl.height >= 1 /\ xl.icon_size >= 1
            /\ LayoutAsSpecified(xl, CDiv) )
    /\ [][ LayoutOf(xl') = LayoutOf(xl) ]_vars

\* a window 10 by 10, narrower than the padding: cols and rows are 0, not
\* the floor -1, and still are after the pointer moved onto the logo
C20_Witness ==
    /\ xl.width = 10 /\ xl.height = 10
    /\ xl.cols = 0 /\ xl.rows = 0
    /\ Floor(xl.width - xl.padding, xl.cell_width) = -1
    /\ call.op = "handle_events" /\ call.event.type = "MotionNotify"
    /\ Hover(xl) = <<0, 1>>

----------------------------------------------------------------------------
(* Division by cols in the scroll setter (spec 4.4, edge case).            *)

\* the call that has just returned got past the two early returns of the
\* setter (noscroll set, target equal to the offset) and so computed
\* (entries_count - 1) / cols
ReachedMaxScroll ==
    /\ xl.noscroll = 0
    /\ \/ /\ call.op = "set_scroll_level"
          /\ call.new_scroll # call.old_scroll
       \/ /\ call.op = "handle_events" /\ IsScrollInput(call.event)
          /\ RequestedBy(call.event, call.old_scroll, xl) # call.old_scroll

\* C21: no scroll request, direct or through a scroll key or the wheel,
\* reaches the maxScroll division with cols = 0, and none kills the
\* process.
C21_ColsPositiveWhenScrolling ==
    /\ pc # "killed"
    /\ ReachedMaxScroll => xl.cols >= 1

----------------------------------------------------------------------------
(* The scroll bound over a range of layouts and entry counts: windows of   *)
(* icon size 64 with 1..MaxCols columns and 0..MaxRows rows, holding       *)
(* 0..MaxEntries entries, on which the host requests scroll levels.        *)

BoundLayouts ==
    { <<Padding + c * (64 + 2 * Padding), Padding + r * (64 + 2 * Padding + TextSpace), 64>> :
         c \in 1..MaxCols, r \in 0..MaxRows }

BoundRequests == {-FarScroll, 0, 1, FarScroll}

InitBound ==
    /\ \E l \in BoundLayouts, n \in 0..MaxEntries :
          xl = [xlunch_native_init(l[1], l[2], l[3], n) EXCEPT !.entries_count = n]
    /\ pc = "loop"
    /\ queue = <<>>
    /\ selected_entry = NoSelection
    /\ call = NoCall
    /\ native = InitSurface(Granted)

NextBound ==
    \E new_scroll \in BoundRequests : SetScrollLevel(new_scroll)

SpecBound == InitBound /\ [][NextBound]_vars

Ceil(a, b) == -((-a) \div b)

\* the upper bound of the offset as the data model states it
DataModelBound(x) == Max0(Ceil(x.entries_count, x.cols) - x.rows)

\* C22: for every entry count >= 0, cols >= 1 and rows >= 0 the bound the
\* setter enforces is the data-model bound max(0, ceil(n / cols) - rows):
\* the offset never exceeds it and a request far above it ends on it.
C22_SetterBoundIsDataModelBound ==
    (xl.cols >= 1 /\ xl.rows >= 0 /\ xl.entries_count >= 0)
       => /\ xl.scrolled_past <= DataModelBound(xl)
          /\ (call.op = "set_scroll_level" /\ call.new_scroll = FarScroll)
                => xl.scrolled_past = DataModelBound(xl)

----------------------------------------------------------------------------
(* The cached backdrop (spec 3, Pixel Buffer).                             *)

\* no step changes the pixels of the backdrop or the structure's handle
BackdropKept ==
    /\ native'.backdrop = native.backdrop
    /\ ("background_image" \in native'.handles) = ("background_image" \in native.handles)

\* the host set a theme other than the one the context starts with
ThemeChanged == native.theme # "transparent"

\* the surface xlunch_native_clear has just drawn
Cleared == IF "render_buffer" \in native.handles THEN native.buffer ELSE native.window

\* C23 as stated: the backdrop is read-only after init except that a theme
\* change discards it, so that frames after a theme change are composed
\* over the flat fallback color.
C23_ThemeChangeDiscardsBackdrop ==
    /\ [][ (\A theme \in Themes : ~SetThemeColors(theme)) => BackdropKept ]_vars
    /\ [][ (\E theme \in Themes : SetThemeColors(theme))
              => "background_image" \notin native'.handles ]_vars
    /\ [] ( (ThemeChanged /\ pc = "frame")
               => Cleared.base \in {Flat(FallbackColor), Flat(ChannelsOf(FallbackPixel))} )

\* C23 amended: the backdrop is produced once, during init, and no later
\* call changes it, a theme change included: frames after a theme change
\* are composed over the same backdrop as the frames before it.
C23_BackdropReadOnly ==
    /\ [][ BackdropKept ]_vars
    /\ [] ( (ThemeChanged /\ pc = "frame" /\ "background_image" \in native.handles)
               => Cleared.base = native.backdrop )

\* a frame begun after a theme change shows the darkened desktop
C23_Witness ==
    /\ native.theme = "light-3d" /\ pc = "frame"
    /\ "render_buffer" \in native.held
    /\ native.backdrop = Desktop
    /\ native.buffer.base = Desktop

----------------------------------------------------------------------------
(* The backdrop being made: a window of 3 by 2 pixels on a root window of  *)
(* 4 by 3 or 2 by 1 pixels.  Either the server's answers and the window's  *)
(* position vary, or the pixels of a root image that is captured at once.  *)

Answers == {"fails", "nodata", "id"}

CaptureRoots == {<<4, 3>>, <<2, 1>>}

\* the window's position on the root window: inside it, beyond its left,
\* its top, its right and its bottom edge
CapturePositions == {<<0, 0>>, <<-1, 0>>, <<0, -1>>, <<2, 0>>, <<1, 2>>}

\* what the image data may hold when imlib_create_image returns it
StalePixels == {Pixel(0, 0, 0, 0), Pixel(128, 255, 255, 255)}

CaptureEnvs ==
    [ primary : Answers, secondary : Answers, data : BOOLEAN,
      got : [Attempts -> BOOLEAN],
      root : CaptureRoots, win : CapturePositions,
      seed : {128}, upper : {0}, stale : StalePixels ]
    \cup
    [ primary : {"id"}, secondary : {"nodata"}, data : {TRUE},
      got : {[a \in Attempts |-> TRUE]},
      root : {<<4, 3>>}, win : {<<0, 0>>},
      seed : 0..255, upper : {0, 128, 255}, stale : {Pixel(0, 0, 0, 0)} ]

InitCapture ==
    /\ xl = xlunch_native_init(3, 2, 64, 0)
    /\ pc = "capture"
    /\ queue = <<>>
    /\ selected_entry = NoSelection
    /\ call = NoCall
    /\ \E env \in CaptureEnvs :
          native = [ env |-> env,
                     direct |-> [i \in 0..(xl.width * xl.height - 1) |-> env.stale],
                     captured |-> [i \in 0..(xl.width * xl.height - 1) |-> env.stale],
                     written |-> {}, queries |-> <<>>, attempts |-> <<>>,
                     ok |-> FALSE ]

\* imlib_image_get_data returned the data: the capture is tried
CaptureRoot ==
    /\ pc = "capture" /\ native.env.data
    /\ LET c == xl_get_root_image_to_imlib_data(xl, native.env, native.direct)
       IN  /\ native' = [native EXCEPT !.direct = c.direct, !.captured = c.direct,
                                       !.written = c.written, !.queries = c.queries,
                                       !.attempts = c.attempts, !.ok = c.ok]
           /\ pc' = IF c.ok THEN "captured" ELSE "unavailable"
    /\ UNCHANGED <<xl, queue, selected_entry, call>>

\* the overlay on every pixel of the image data
DarkenBackdrop ==
    /\ pc = "captured"
    /\ native' = [native EXCEPT !.direct = [i \in DOMAIN @ |-> Darken(@[i])]]
    /\ pc' = "backdrop"
    /\ UNCHANGED <<xl, queue, selected_entry, call>>

\* no data or no capture: the image is filled with the fallback color
FillFlat ==
    /\ pc = "unavailable" \/ (pc = "capture" /\ ~native.env.data)
    /\ native' = [native EXCEPT !.direct = [i \in DOMAIN @ |-> FlatPixel]]
    /\ pc' = "backdrop"
    /\ UNCHANGED <<xl, queue, selected_entry, call>>

NextCapture ==
    \/ CaptureRoot
    \/ DarkenBackdrop
    \/ FillFlat

SpecCapture == InitCapture /\ [][NextCapture]_vars

----------------------------------------------------------------------------
(* Backdrop darkening (spec 4.1, post-processing).                         *)

\* C24: every stored channel is floor(c * 95 / 255) of the same channel c
\* of the captured pixel and of nothing else, lies in 0..95 (0 -> 0,
\* 128 -> 47, 255 -> 95), and the stored alpha is 0xFF whatever the byte
\* above the captured channels was.
C24_DarkeningPerChannel ==
    (pc = "backdrop" /\ native.ok)
       => \A i \in DOMAIN native.direct :
             LET from == native.captured[i]
                 to   == native.direct[i]
             IN  /\ Red(to) = (Red(from) * 95) \div 255
                 /\ Green(to) = (Green(from) * 95) \div 255
                 /\ Blue(to) = (Blue(from) * 95) \div 255
                 /\ {Red(to), Green(to), Blue(to)} \subseteq 0..95
                 /\ Alpha(to) = 255
                 /\ Red(from) = 0 => Red(to) = 0
                 /\ Red(from) = 128 => Red(to) = 47
                 /\ Red(from) = 255 => Red(to) = 95

\* a captured pixel with a byte of 128 above a red channel of 128 was
\* stored opaque with a red channel of 47
C24_Witness ==
    /\ pc = "backdrop" /\ native.ok
    /\ native.env.upper = 128
    /\ \E i \in DOMAIN native.direct :
          /\ Alpha(native.captured[i]) = 128
          /\ Red(native.captured[i]) = 128
          /\ Alpha(native.direct[i]) = 255
          /\ Red(native.direct[i]) = 47

----------------------------------------------------------------------------
(* Every operation of the context: the host that polls events, and the     *)
(* host that renders frames and tears the context down.                    *)

InitHost == Init \/ InitLife

\* the X server delivers an event to a host that has handled all earlier ones
ArriveIdle(event) ==
    /\ pc = "loop"
    /\ queue = <<>>
    /\ queue' = <<event>>
    /\ call' = NoCall
    /\ UNCHANGED <<xl, pc, selected_entry, native>>

NextHost ==
    \/ \E n \in EntryCounts : HostSetEntries(n)
    \/ HostSetNoscroll
    \/ Show
    \/ \E event \in Events(xl) : ArriveIdle(event)
    \/ \E new_scroll \in ScrollRequests : SetScrollLevel(new_scroll)
    \/ HandleNoEvent
    \/ HandleEvent
    \/ NextLife

SpecHost == InitHost /\ [][NextHost]_vars

\* the step is an explicit scroll-level request
ScrollRequestStep ==
    \/ call'.op = "set_scroll_level"
    \/ call'.op = "handle_events" /\ IsScrollInput(call'.event)

\* the step dispatches a pointer motion, enter or leave event
PointerStep ==
    /\ call'.op = "handle_events"
    /\ call'.event.type \in {"MotionNotify", "EnterNotify", "LeaveNotify"}

\* C25: the scroll offset changes only in a scroll-level request (scroll
\* key, wheel, direct call) and the hover flags only on pointer motion,
\* enter or leave; every other event and every clear, draw, present and
\* theme call leaves the offset and both flags as they were.
C25_NoSpontaneousChange ==
    [][ /\ xl'.scrolled_past # xl.scrolled_past => ScrollRequestStep
        /\ Hover(xl') # Hover(xl) => PointerStep ]_vars

\* an Expose event dispatched with the grid scrolled and the settings
\* button hovered left both as they were
C25_Witness ==
    /\ call.op = "handle_events" /\ call.event.type = "Expose"
    /\ call.old_scroll = 4 /\ xl.scrolled_past = 4
    /\ call.old_hover = <<1, 0>> /\ Hover(xl) = <<1, 0>>

----------------------------------------------------------------------------
(* The divisor of the scrollbar position (spec 9, open question).          *)

\* xlunch_native_draw_scrollbar has executed the division of line 917
ScrollbarDivided == native.scrollbar # <<>>

\* C26: the division is executed with the divisor as computed, under no
\* test of its sign, whenever scrolling is enabled and the entries exceed
\* rows * cols; the divisor is then zero or negative in a layout with
\* cols = 0 and rows >= 1, for every entry count from 1 on, and at least 1
\* in every layout with cols >= 1.
C26_ScrollbarDivisorUnguarded ==
    ScrollbarDivided
       => /\ xl.noscroll = 0 /\ xl.entries_count > xl.rows * xl.cols
          /\ xl.cols >= 1
                => /\ native.scrollbar[1] =
                         CDiv(xl.entries_count - 1, xl.cols) - xl.rows + 1
                   /\ native.scrollbar[1] >= 1
          /\ xl.cols = 0
                => /\ native.scrollbar[1] = 1 - xl.rows
                   /\ xl.rows >= 1 => native.scrollbar[1] <= 0

\* 100x400 with icon 64 (cols 0, rows 3) and 3 entries: the scrollbar was
\* drawn after a division by -2
C26_Witness ==
    /\ ScrollbarDivided
    /\ xl.width = 100 /\ xl.height = 400 /\ xl.entries_count = 3
    /\ native.scrollbar[1] = -2
    /\ "scrollbar" \in native.window.items

----------------------------------------------------------------------------
(* Backdrop capture (spec 4.1).                                            *)

Queried(name) == \E k \in 1..Len(native.queries) : native.queries[k] = name

\* C27: once the lookup has run, the secondary property _XROOTMAP_ID was
\* queried exactly when the primary _XROOTPMAP_ID gave no pixmap id, be it
\* that the query failed or that it succeeded with no data; a primary id
\* is used, as the pixmap fetched first, without the secondary query.
C27_SecondaryWhenPrimaryAbsent ==
    native.queries # <<>>
       => /\ native.queries[1] = "_XROOTPMAP_ID"
          /\ Queried("_XROOTMAP_ID") <=> native.env.primary # "id"
          /\ native.env.primary = "id" => native.attempts[1] = "pixmap"

\* the XGetImage attempts in the order of the chain, given the first one
ChainFrom(first) ==
    <<first, "mask0", "mask1", "mask2", "mask3", "probe", "retry">>

\* whether an attempt of the chain returned an image
Yielded(attempt) ==
    native.env.got[IF attempt \in {"pixmap", "root"} THEN "first" ELSE attempt]

\* C28: the attempts made are an initial part of the chain (the pixmap if
\* an id was found, else the root; the four plane masks; the probe and the
\* full-region retry); no attempt follows one that yielded an image, but
\* for the retry that follows a successful probe; capture reports success
\* exactly when its last attempt yielded the image, and unavailable only
\* after the whole chain failed, and then the backdrop is the flat color.
C28_FirstSuccessWins ==
    native.attempts # <<>>
       => LET made  == native.attempts
              chain == ChainFrom(IF GetRootPixmap(native.env).found
                                 THEN "pixmap" ELSE "root")
          IN  /\ made = SubSeq(chain, 1, Len(made))
              /\ \A k \in 1..(Len(made) - 1) :
                    Yielded(made[k]) => made[k] = "probe"
              /\ native.ok <=> (Yielded(made[Len(made)]) /\ made[Len(made)] # "probe")
              /\ ~native.ok
                    => /\ \A k \in 1..5 : ~Yielded(chain[k])
                       /\ ~Yielded("probe") \/ ~Yielded("retry")
                       /\ native.written = {}
                       /\ pc = "backdrop"
                             => \A i \in DOMAIN native.direct :
                                   native.direct[i] = FlatPixel

\* every attempt before the last one failed, the probe apart, and the
\* full-region retry gave the image
C28_Witness ==
    /\ native.attempts = ChainFrom("root")
    /\ native.ok /\ pc = "backdrop"
    /\ native.written = DOMAIN native.direct

\* the three color channels of a pixel
Channels(pixel) == <<Red(pixel), Green(pixel), Blue(pixel)>>

\* C29: after a successful capture every pixel of the backdrop has been
\* written: with the root image's pixel at the window-local position
\* translated by the window's position where that lies inside the image,
\* with opaque black where it lies outside, be it left of, above, right of
\* or below the image.
C29_EveryPixelWritten ==
    (pc = "captured" /\ native.ok)
       => /\ native.written = DOMAIN native.direct
          /\ \A i \in DOMAIN native.direct :
                LET src_x == (i % xl.width) + native.env.win[1]
                    src_y == (i \div xl.width) + native.env.win[2]
                IN  IF /\ src_x >= 0 /\ src_x < native.env.root[1]
                       /\ src_y >= 0 /\ src_y < native.env.root[2]
                    THEN Channels(native.direct[i])
                            = Channels(XGetPixel(native.env, src_x, src_y))
                    ELSE native.direct[i] = OpaqueBlack

----------------------------------------------------------------------------
(* Reach of the hit test (spec 4.3, 4.4).                                  *)

\* the context with the grid scrolled to s
ScrolledTo(x, s) == [x EXCEPT !.scrolled_past = s]

\* the offsets the Down key reaches from offset s on (cols >= 1)
RECURSIVE DownFrom(_, _)
DownFrom(x, s) ==
    LET after == { o.xl.scrolled_past : o \in KeyPress(ScrolledTo(x, s), KeyDown) }
    IN  {s} \cup UNION { DownFrom(x, t) : t \in after \ {s} }

\* top-left corners of the grid cells that lie inside the window; a click
\* anywhere in a cell resolves as a click on its corner does
CellCorners(x) ==
    { [x |-> col * x.cell_width, y |-> HeaderHeight + r * x.cell_height] :
         col \in 0..(x.cols - 1),
         r \in { q \in 0..x.rows : HeaderHeight + q * x.cell_height < x.height } }

\* some offset reachable from 0 and some cell make a left click end the
\* loop with index i
Selectable(x, i) ==
    \E s \in DownFrom(x, 0), p \in CellCorners(x) :
       Outcome(ScrolledTo(x, s), RetQuit, i) \in GridClick(ScrolledTo(x, s), p.x, p.y)

\* C30: in every layout with cols >= 1 each of the entries 0..n-1 can be
\* selected: some scroll offset reachable from 0 by the scroll inputs and
\* some pointer position in the window make a left click return 0 with
\* that index.
C30_EveryEntrySelectable ==
    (pc = "loop" /\ call = NoCall /\ queue = <<>> /\ xl.cols >= 1 /\ xl.noscroll = 0)
       => \A i \in 0..(xl.num_entries - 1) : Selectable(xl, i)

----------------------------------------------------------------------------
(* The entry list replaced while the window is shown: the host stores a    *)
(* new entry count in the context between two calls of                     *)
(* xlunch_native_set_scroll_level, and may request the offset the context  *)
(* already holds.                                                          *)

\* the host replaces the entry list of a shown window
HostReplaceEntries(n) ==
    /\ pc = "loop"
    /\ n # xl.entries_count
    /\ xl' = [xl EXCEPT !.entries_count = n, !.num_entries = n]
    /\ call' = NoCall
    /\ UNCHANGED <<pc, queue, selected_entry, native>>

InitReplace ==
    /\ \E l \in Layouts, n \in EntryCounts :
          xl = [xlunch_native_init(l[1], l[2], l[3], n) EXCEPT !.entries_count = n]
    /\ pc = "loop"
    /\ queue = <<>>
    /\ selected_entry = NoSelection
    /\ call = NoCall
    /\ native = InitSurface(Granted)

NextReplace ==
    \/ \E n \in EntryCounts : HostReplaceEntries(n)
    \/ \E new_scroll \in ScrollRequests \cup {xl.scrolled_past} :
          SetScrollLevel(new_scroll)

SpecReplace == InitReplace /\ [][NextReplace]_vars

\* C31: whenever xlunch_native_set_scroll_level has returned, with scrolling
\* enabled and cols >= 1, the offset lies in [0, max(0, maxScroll)] for the
\* entry count the context held at that call, also when the host lowered
\* the entry count since the previous call and the request equals the
\* offset the context holds.
C31_OffsetWithinCurrentRange ==
    (call.op = "set_scroll_level" /\ xl.noscroll = 0 /\ xl.cols >= 1)
       => (0 <= xl.scrolled_past /\ xl.scrolled_past <= maxScroll(xl))

----------------------------------------------------------------------------
(* The output cell of the dispatcher: *selected_entry after every return   *)
(* of xlunch_native_handle_events on a context and an output pointer that  *)
(* are not null.                                                           *)

\* the index the hit-test resolves for a click e dispatched at offset old
ResolvedIndex(x, e, old) ==
    (CDiv(e.y - HeaderHeight, x.cell_height) + old) * x.cols
       + CDiv(e.x, x.cell_width)

IsQuitEvent(e) == e = Key(KeyEscape) \/ e.type = "ClientMessage"

\* what the output cell holds for event e dispatched at offset old with
\* result r
SelectionAsSpecified(x, e, old, r, sel) ==
    /\ sel # NoSelection
          => /\ r = RetQuit /\ IsGridClick(e)
             /\ sel = ResolvedIndex(x, e, old)
             /\ 0 <= sel /\ sel < x.num_entries
    /\ (r = RetQuit /\ IsGridClick(e)) => sel = ResolvedIndex(x, e, old)
    /\ (r = RetQuit /\ ~IsGridClick(e)) => IsQuitEvent(e)
    /\ IsQuitEvent(e) => (r = RetQuit /\ sel = NoSelection)

\* C32: after every return of xlunch_native_handle_events *selected_entry
\* is -1, unless the call returned 0 for a left click that resolved to a
\* grid entry, and then it is the resolved index; a value the cell held
\* before the call is never left in it, and a return of 0 for Escape or for
\* a window-close message carries -1.
C32_SelectionOnlyFromGridClick ==
    /\ call.op = "handle_events"
          => SelectionAsSpecified(xl, call.event, call.old_scroll,
                                  call.ret, selected_entry)
    /\ (call.op = "handle_events" /\ call.ret # RetQuit)
          => selected_entry = NoSelection
    /\ queue = <<>> =>
          \A e \in Events(xl) :
             \A o \in xlunch_native_handle_events(xl, e) :
                ~o.crash => SelectionAsSpecified(xl, e, xl.scrolled_past,
                                                 o.ret, o.selected_entry)

\* a click in the scrolled grid has ended the loop with the index it
\* resolved, which is not the index the cell held before the first poll
C32_Witness ==
    /\ call.op = "handle_events" /\ IsGridClick(call.event)
    /\ call.old_scroll > 0
    /\ pc = "quit" /\ call.ret = RetQuit
    /\ selected_entry = ResolvedIndex(xl, call.event, call.old_scroll)
    /\ selected_entry \notin StaleSelection

----------------------------------------------------------------------------
(* The context before the host has supplied an entry count: entries_count  *)
(* is the 0 xlunch_native_init stored, and num_entries is whatever the     *)
(* allocation held.                                                        *)

\* C33: while the entry count is the 0 that xlunch_native_init stored, the
\* count that bounds click selection, num_entries, bounds it like a 0: no
\* call of xlunch_native_handle_events returns 0 with a selection for a
\* left click, at any position, and, in a layout with at least one column
\* and one row, no call moves the offset from 0.
C33_NoEntriesAfterInit ==
    (xl.entries_count = 0 /\ call.op = "handle_events")
       => /\ selected_entry = NoSelection
          /\ IsGridClick(call.event) => call.ret = RetContinue
          /\ (xl.cols >= 1 /\ xl.rows >= 1) => xl.scrolled_past = 0

====
